---- MODULE Spec2Model ----
(***************************************************************************)
(* State-machine model of the submissions application (Django):            *)
(* models.py (Classroom, ClassroomMembership, ProjectSubmission),          *)
(* forms.py (the form validation and save methods) and views.py (the       *)
(* permission mixins and the request handlers).                            *)
(*                                                                         *)
(* The persistent store is three tables.  Every handler is one action of   *)
(* the sequential specification Spec (one request at a time).  A request   *)
(* that is refused or fails leaves the store as it is; what it answers is  *)
(* the handler's Outcome operator: "ok", "invalid" (the form is shown      *)
(* again with its errors), "forbidden" (a permission check refused),       *)
(* "conflict", "failed" (submit() returned False), "notfound" (404),       *)
(* "error" (an exception left the handler: 500).                           *)
(***************************************************************************)
EXTENDS Integers, Sequences, FiniteSets, TLC

VARIABLES
    classrooms,      \* Classroom table: pk -> row
    nextClassroomPk, \* next auto-increment pk of the Classroom table
    memberships,     \* ClassroomMembership table, a bag of rows: <<classroom pk, student>> -> number of rows
    subs,            \* ProjectSubmission table: pk -> row (collaborators: the m2m rows of the submission)
    nextSubPk,       \* next auto-increment pk of the ProjectSubmission table
    reqs,            \* worker -> the request it has validated and not yet saved, or Idle
    steps            \* number of handler steps taken so far

vars == <<classrooms, nextClassroomPk, memberships, subs, nextSubPk, reqs, steps>>

(***************************************************************************)
(* Bounds of the model.                                                    *)
(***************************************************************************)
MaxClassrooms == 2
MaxSubmissions == 2
MaxTime == 2
MaxSteps == 6

(***************************************************************************)
(* Program constants.                                                      *)
(***************************************************************************)
CodeLength == 8
JoinFieldLength == 8
MinGrade == 1
MaxGrade == 20

\* None in a text or file column
None == "None"

\* a nullable number column holds Null or <<n>>
Null == <<>>

(***************************************************************************)
(* Users.  The role flag is fixed per user: no operation changes it.       *)
(***************************************************************************)
Teachers == {"t1", "t2"}
Students == {"s1", "s2"}
Users == Teachers \cup Students

\* The server's workers: each handles one request at a time.
Workers == {"w1", "w2"}

Idle == [op |-> "idle"]

is_teacher(u) == u \in Teachers

\* the names given at registration (UserRegistrationForm: both are required)
first_name == [u \in Users |-> CASE u = "t1" -> "Eve" [] u = "t2" -> "Dan"
                                 [] u = "s1" -> "Ann" [] OTHER -> "Bob"]

last_name == [u \in Users |-> CASE u = "t1" -> "Kim" [] u = "t2" -> "Roy"
                                [] u = "s1" -> "Lee" [] OTHER -> "Ray"]

DRAFT == "DRAFT"
SUBMITTED == "SUBMITTED"

(***************************************************************************)
(* Text helpers.  Strings are Python str values; a character is a string   *)
(* of length 1.                                                            *)
(***************************************************************************)
ascii_uppercase == "ABCDEFGHIJKLMNOPQRSTUVWXYZ"
ascii_lowercase == "abcdefghijklmnopqrstuvwxyz"
digits == "0123456789"

CharAt(s, i) == SubSeq(s, i, i)

IndexIn(s, ch) == CHOOSE i \in 1..Len(s) : CharAt(s, i) = ch

HasChar(s, ch) == \E i \in 1..Len(s) : CharAt(s, i) = ch

UpperChar(ch) ==
    IF HasChar(ascii_lowercase, ch) THEN CharAt(ascii_uppercase, IndexIn(ascii_lowercase, ch)) ELSE ch

LowerChar(ch) ==
    IF HasChar(ascii_uppercase, ch) THEN CharAt(ascii_lowercase, IndexIn(ascii_uppercase, ch)) ELSE ch

RECURSIVE upper(_)
upper(s) == IF Len(s) = 0 THEN "" ELSE UpperChar(CharAt(s, 1)) \o upper(SubSeq(s, 2, Len(s)))

RECURSIVE lower(_)
lower(s) == IF Len(s) = 0 THEN "" ELSE LowerChar(CharAt(s, 1)) \o lower(SubSeq(s, 2, Len(s)))

\* str.strip(): leading and trailing whitespace removed.
strip(s) ==
    LET kept == {i \in 1..Len(s) : CharAt(s, i) # " "}
        first == CHOOSE i \in kept : \A j \in kept : i <= j
        last == CHOOSE i \in kept : \A j \in kept : j <= i
    IN IF kept = {} THEN "" ELSE SubSeq(s, first, last)

\* Python's `t in s` on strings.
Contains(s, t) == \E i \in 1..(Len(s) - Len(t) + 1) : SubSeq(s, i, i + Len(t) - 1) = t

\* the __icontains lookup: t occurs in s, letter case ignored
icontains(s, t) == Contains(lower(s), lower(t))

(***************************************************************************)
(* Join codes.  generate_join_code joins CodeLength characters, each drawn *)
(* by secrets.choice from ascii_uppercase + digits.  A draw is the index   *)
(* the generator picks; DrawSamples are the sampled outcomes of the random *)
(* generator (it can return any of the 36^8 codes, equal ones included).   *)
(***************************************************************************)
CodeAlphabet == ascii_uppercase \o digits

DrawSamples == {
    <<1, 2, 28, 29, 3, 4, 30, 31, 5>>,
    <<26, 26, 26, 26, 36, 36, 36, 36, 1>>,
    <<17, 34, 17, 34, 17, 34, 17, 34, 2>> }

RECURSIVE JoinDraws(_, _)
JoinDraws(draws, n) ==
    IF n = 0 THEN "" ELSE JoinDraws(draws, n - 1) \o CharAt(CodeAlphabet, draws[n])

generate_join_code == {JoinDraws(d, CodeLength) : d \in DrawSamples}

\* [A-Z0-9]{8}
IsJoinCode(code) ==
    /\ Len(code) = CodeLength
    /\ \A i \in 1..Len(code) : HasChar(CodeAlphabet, CharAt(code, i))

(***************************************************************************)
(* The ClassroomMembership table.  Rows carry no data beyond (classroom,   *)
(* student), so the table is the bag of these pairs.                       *)
(***************************************************************************)
MembershipCount(ms, c, u) == IF <<c, u>> \in DOMAIN ms THEN ms[<<c, u>>] ELSE 0

\* Classroom.is_student_member
is_student_member(ms, c, u) == MembershipCount(ms, c, u) > 0

\* fault: a table without the unique pair
MembershipUnchecked(ms, c, u) == TRUE

\* unique_together = ['classroom', 'student']: the insert of a second row is refused.
MembershipUnique(ms, c, u) == MembershipCount(ms, c, u) = 0

MembershipInsert(ms, c, u) ==
    [p \in DOMAIN ms \cup {<<c, u>>} |-> IF p = <<c, u>> THEN MembershipCount(ms, c, u) + 1 ELSE ms[p]]

\* fault: a delete that takes every membership of the classroom
MembershipDeleteWholeClassroom(ms, c, u) == [p \in {q \in DOMAIN ms : q[1] # c} |-> ms[p]]

\* membership.delete(): the one row that was fetched
MembershipDelete(ms, c, u) ==
    [p \in {q \in DOMAIN ms : q # <<c, u>> \/ ms[q] > 1} |-> IF p = <<c, u>> THEN ms[p] - 1 ELSE ms[p]]

\* on_delete=CASCADE from Classroom
MembershipCascade(ms, c) == [p \in {q \in DOMAIN ms : q[1] # c} |-> ms[p]]

\* the students of the classroom (ClassroomMembership.objects.filter(classroom=c))
MemberIds(ms, c) == {u \in Users : is_student_member(ms, c, u)}

(***************************************************************************)
(* The Classroom table.                                                    *)
(***************************************************************************)
\* fault: a join_code column without unique=True
JoinCodeUnchecked(cs, code, pk) == TRUE

\* join_code: unique=True
JoinCodeUnique(cs, code, pk) == \A k \in DOMAIN cs : k # pk => cs[k].join_code # code

\* Classroom.objects.get(join_code=code): the pks that match
ClassroomsByCode(cs, code) == {k \in DOMAIN cs : cs[k].join_code = code}

\* ClassroomManager.for_teacher
Classroom_for_teacher(cs, u) == {k \in DOMAIN cs : cs[k].teacher = u}

\* ClassroomManager.for_student
Classroom_for_student(cs, ms, u) == {k \in DOMAIN cs : MembershipCount(ms, k, u) > 0}

(***************************************************************************)
(* ProjectSubmission: properties and methods of a row s.                   *)
(***************************************************************************)
\* fault: a status test that takes every submission for a draft
is_draft_always(s) == TRUE

is_draft(s) == s.status = DRAFT

\* fault: a status test that takes every submission for a submitted one
is_submitted_always(s) == TRUE

is_submitted(s) == s.status = SUBMITTED

is_graded(s) == s.grade # Null

is_editable(s) == is_draft(s)

\* fault: an edit check that does not look at the status
can_user_edit_any_status(s, u) == u \in s.collaborators

can_user_edit(s, u) == IF ~is_editable(s) THEN FALSE ELSE u \in s.collaborators

\* fault: a view check that lets the owning teacher see only what was submitted
can_user_view_submitted_only(s, u) ==
    IF is_teacher(u) /\ classrooms[s.classroom].teacher = u THEN is_submitted(s)
    ELSE u \in s.collaborators

\* ProjectSubmission.can_user_view
can_user_view(s, u) ==
    IF is_teacher(u) /\ classrooms[s.classroom].teacher = u THEN TRUE
    ELSE u \in s.collaborators

\* fault: a submit() that saves again whatever the status
submit_again(s, now) ==
    [ok |-> TRUE, row |-> [s EXCEPT !.status = SUBMITTED, !.submitted_at = <<now>>]]

\* fault: a submit() that saves the status without the time
submit_without_stamp(s, now) ==
    IF is_draft(s)
    THEN [ok |-> TRUE, row |-> [s EXCEPT !.status = SUBMITTED]]
    ELSE [ok |-> FALSE, row |-> s]

\* submit(): the returned flag and the row as saved (status and submitted_at are the saved fields)
submit(s, now) ==
    IF is_draft(s)
    THEN [ok |-> TRUE, row |-> [s EXCEPT !.status = SUBMITTED, !.submitted_at = <<now>>]]
    ELSE [ok |-> FALSE, row |-> s]

\* assign_grade(): the returned flag and the row as saved
assign_grade(s, grade, notes) ==
    IF is_submitted(s)
    THEN [ok |-> TRUE, row |-> [s EXCEPT !.grade = grade, !.teacher_notes = notes]]
    ELSE [ok |-> FALSE, row |-> s]

\* ProjectSubmission.objects.filter(classroom=c, created_by=u).exists()
SubmissionExists(ss, c, u) == \E k \in DOMAIN ss : ss[k].classroom = c /\ ss[k].created_by = u

\* fault: a table without the constraint
SubmissionUnchecked(ss, c, u) == TRUE

\* UniqueConstraint(fields=['classroom', 'created_by']): the insert of a second row is refused.
SubmissionUnique(ss, c, u) == \A k \in DOMAIN ss : ~(ss[k].classroom = c /\ ss[k].created_by = u)

\* fault: a classroom delete that leaves the submissions behind
SubmissionNoCascade(ss, c) == ss

\* on_delete=CASCADE from Classroom
SubmissionCascade(ss, c) == [k \in {q \in DOMAIN ss : ss[q].classroom # c} |-> ss[k]]

\* fault: a student queryset that is not narrowed to the student
for_student_everything(ss, u) == DOMAIN ss

\* ProjectSubmissionManager.for_student: the rows (by pk) with the student among the
\* collaborators
for_student(ss, u) == {k \in DOMAIN ss : u \in ss[k].collaborators}

\* fault: a teacher queryset without the status filter
for_teacher_any_status(cs, ss, u) == {k \in DOMAIN ss : cs[ss[k].classroom].teacher = u}

\* ProjectSubmissionManager.for_teacher
for_teacher(cs, ss, u) ==
    {k \in DOMAIN ss : cs[ss[k].classroom].teacher = u /\ ss[k].status = SUBMITTED}

\* ProjectSubmissionManager.for_classroom; teacher is None or a user
for_classroom(ss, c, teacher) ==
    LET qs == {k \in DOMAIN ss : ss[k].classroom = c}
    IN IF teacher # None THEN {k \in qs : ss[k].status = SUBMITTED} ELSE qs

(***************************************************************************)
(* Request inputs.                                                         *)
(***************************************************************************)
\* title, description, requirements_file as posted to the classroom forms: what a
\* teacher posts to create a classroom, and what is posted to edit one
ClassroomCreateInputs == {
    [title |-> "Web", description |-> "final project", requirements_file |-> None],
    [title |-> "", description |-> "", requirements_file |-> None] }

ClassroomInputs == ClassroomCreateInputs \cup {
    [title |-> "Web 2", description |-> "final project, revised", requirements_file |-> "req.pdf"] }

\* title, description, repository_url, deployed_url as posted to the submission forms
SubmissionInputs == {
    [title |-> "Shop", description |-> "a shop", repository_url |-> "https://github.com/s/proj",
     deployed_url |-> None],
    [title |-> "Shop 2", description |-> "a bigger shop", repository_url |-> "https://example.com/s/proj",
     deployed_url |-> "https://shop.example.org"] }

\* the users ticked in the collaborators field
CollaboratorInputs == (SUBSET Students) \cup {{"t1"}}

\* what a student types in the join form
TypedCodes == generate_join_code \cup {"ab12cd34", " zzzz9999 ", "AB12"}

GradeInputs == {Null, <<0>>, <<1>>, <<20>>, <<21>>}

NotesInputs == {"", "great"}

Times == 1..MaxTime

\* what is typed in the student box of the submission filter and in the search box of
\* the classroom filter
StudentSearches == {"", "S1", "lee"}

ClassroomSearches == {"", "WEB 2", "kim"}

\* the query string of a submission list: status, grade_min, grade_max, classroom and
\* student as SubmissionFilterForm reads them (Null: the parameter is absent or empty)
NoFilter == [status |-> "", grade_min |-> Null, grade_max |-> Null, classroom |-> Null, student |-> ""]

SubmissionFilterInputs ==
    {[NoFilter EXCEPT !.status = st] : st \in {"", "DRAFT", "SUBMITTED", "GRADED"}}
    \cup {[NoFilter EXCEPT !.classroom = <<k>>] : k \in 1..MaxClassrooms}
    \cup {[NoFilter EXCEPT !.status = "SUBMITTED", !.classroom = <<1>>, !.student = "S1"]}
    \cup {[NoFilter EXCEPT !.grade_min = <<10>>], [NoFilter EXCEPT !.grade_max = <<10>>],
          [NoFilter EXCEPT !.grade_min = <<1>>, !.grade_max = <<10>>],
          [NoFilter EXCEPT !.grade_min = <<0>>], [NoFilter EXCEPT !.student = "S1"],
          [NoFilter EXCEPT !.student = "lee"]}

(***************************************************************************)
(* Forms.                                                                  *)
(***************************************************************************)
\* ClassroomCreateForm / ClassroomUpdateForm: title and description are required
ClassroomFormValid(inp) == inp.title # "" /\ inp.description # ""

\* JoinClassroomForm.join_code: a CharField, which strips what was typed
JoinFieldValue == [typed \in TypedCodes |-> strip(typed)]

\* clean_join_code: cleaned_data.get('join_code', '').upper().strip()
NormalizedCode == [typed \in TypedCodes |-> strip(upper(JoinFieldValue[typed]))]

\* fault: a clean_join_code without the membership check
JoinFormCleanNoMemberCheck(cs, ms, u, typed) ==
    LET value == JoinFieldValue[typed]
        code == NormalizedCode[typed]
        found == ClassroomsByCode(cs, code)
        c == CHOOSE k \in found : TRUE
    IN IF Len(value) # JoinFieldLength THEN [valid |-> FALSE, classroom |-> 0]
       ELSE IF found = {} THEN [valid |-> FALSE, classroom |-> 0]
       ELSE IF cs[c].teacher = u THEN [valid |-> FALSE, classroom |-> c]
       ELSE [valid |-> TRUE, classroom |-> c]

\* fault: a clean_join_code that looks up the code as typed
JoinFormCleanAsTyped(cs, ms, u, typed) ==
    LET value == JoinFieldValue[typed]
        found == ClassroomsByCode(cs, value)
        c == CHOOSE k \in found : TRUE
    IN IF Len(value) # JoinFieldLength THEN [valid |-> FALSE, classroom |-> 0]
       ELSE IF found = {} THEN [valid |-> FALSE, classroom |-> 0]
       ELSE IF is_student_member(ms, c, u) THEN [valid |-> FALSE, classroom |-> c]
       ELSE IF cs[c].teacher = u THEN [valid |-> FALSE, classroom |-> c]
       ELSE [valid |-> TRUE, classroom |-> c]

\* JoinClassroomForm: the join_code field (min_length = max_length = 8) and clean_join_code
JoinFormClean(cs, ms, u, typed) ==
    LET value == JoinFieldValue[typed]
        code == NormalizedCode[typed]
        found == ClassroomsByCode(cs, code)
        c == CHOOSE k \in found : TRUE
    IN IF Len(value) # JoinFieldLength THEN [valid |-> FALSE, classroom |-> 0]
       ELSE IF found = {} THEN [valid |-> FALSE, classroom |-> 0]
       ELSE IF is_student_member(ms, c, u) THEN [valid |-> FALSE, classroom |-> c]
       ELSE IF cs[c].teacher = u THEN [valid |-> FALSE, classroom |-> c]
       ELSE [valid |-> TRUE, classroom |-> c]

\* fault: a collaborators field that offers every student, member or not
CollaboratorChoicesAnyStudent(ms, c) == {x \in Users : ~is_teacher(x)}

\* the queryset of the collaborators field: non-teacher users with a membership in the classroom
CollaboratorChoices(ms, c) == {x \in MemberIds(ms, c) : ~is_teacher(x)}

\* ProjectSubmissionCreateForm.clean_repository_url
valid_hosts == {"github.com", "gitlab.com", "bitbucket.org"}

clean_repository_url(url) == \E host \in valid_hosts : Contains(lower(url), host)

RepositoryUrlValid == [inp \in SubmissionInputs |-> clean_repository_url(inp.repository_url)]

\* ProjectSubmissionCreateForm: collaborators optional, within the queryset; clean()
CreateFormValid(ms, ss, c, u, inp, sel) ==
    /\ sel \subseteq CollaboratorChoices(ms, c)
    /\ RepositoryUrlValid[inp]
    /\ ~SubmissionExists(ss, c, u)

\* fault: an update form whose collaborators field is optional, as on the create form
UpdateFormValidOptionalCollaborators(ms, s, sel) ==
    /\ sel \subseteq CollaboratorChoices(ms, s.classroom)
    /\ is_draft(s)

\* ProjectSubmissionUpdateForm: collaborators required, within the queryset; clean()
UpdateFormValid(ms, s, sel) ==
    /\ sel # {}
    /\ sel \subseteq CollaboratorChoices(ms, s.classroom)
    /\ is_draft(s)

\* fault: a range check without the upper limit
clean_grade_no_upper(grade) == ~(grade # Null /\ grade[1] < MinGrade)

\* GradeSubmissionForm.clean_grade (an empty grade is accepted: the field is optional)
clean_grade(grade) == ~(grade # Null /\ (grade[1] < MinGrade \/ grade[1] > MaxGrade))

\* GradeSubmissionForm: clean_grade and clean()
GradeFormValid(s, grade) == clean_grade(grade) /\ is_submitted(s)

\* the student box of the submission filter looks in username, first_name, last_name
NameMatches ==
    [u \in Users, q \in StudentSearches |->
        icontains(u, q) \/ icontains(first_name[u], q) \/ icontains(last_name[u], q)]

\* the search box of the classroom filter looks in the teacher's first_name, last_name
TeacherNameMatches ==
    [u \in Users, q \in ClassroomSearches |->
        icontains(first_name[u], q) \/ icontains(last_name[u], q)]

ClassroomTexts == {inp.title : inp \in ClassroomInputs} \cup {inp.description : inp \in ClassroomInputs}

TextMatches == [t \in ClassroomTexts, q \in ClassroomSearches |-> icontains(t, q)]

\* SubmissionFilterForm.__init__ and is_valid: a teacher has no DRAFT choice, the
\* classroom must be one of the user's own, the grades within the field limits
SubmissionFilterValid(u, f) ==
    /\ f.status \in (IF is_teacher(u) THEN {"", "SUBMITTED", "GRADED"}
                     ELSE {"", "DRAFT", "SUBMITTED", "GRADED"})
    /\ f.grade_min = Null \/ f.grade_min[1] \in MinGrade..MaxGrade
    /\ f.grade_max = Null \/ f.grade_max[1] \in MinGrade..MaxGrade
    /\ f.classroom = Null \/
           f.classroom[1] \in (IF is_teacher(u) THEN Classroom_for_teacher(classrooms, u)
                               ELSE Classroom_for_student(classrooms, memberships, u))

\* fault: a text criterion that looks at the username only
SubmissionFilterUsernameOnly(qs, u, f) ==
    IF ~SubmissionFilterValid(u, f) THEN qs
    ELSE {k \in qs :
            /\ IF f.status = "GRADED" THEN subs[k].grade # Null
               ELSE IF f.status # "" THEN subs[k].status = f.status
               ELSE TRUE
            /\ f.grade_min # Null => (subs[k].grade # Null /\ subs[k].grade[1] >= f.grade_min[1])
            /\ f.grade_max # Null => (subs[k].grade # Null /\ subs[k].grade[1] <= f.grade_max[1])
            /\ f.classroom # Null => subs[k].classroom = f.classroom[1]
            /\ f.student # "" => \E col \in subs[k].collaborators : icontains(col, f.student)}

\* SubmissionFilterForm.filter_queryset: an invalid form filters nothing
SubmissionFilter(qs, u, f) ==
    IF ~SubmissionFilterValid(u, f) THEN qs
    ELSE {k \in qs :
            /\ IF f.status = "GRADED" THEN subs[k].grade # Null
               ELSE IF f.status # "" THEN subs[k].status = f.status
               ELSE TRUE
            /\ f.grade_min # Null => (subs[k].grade # Null /\ subs[k].grade[1] >= f.grade_min[1])
            /\ f.grade_max # Null => (subs[k].grade # Null /\ subs[k].grade[1] <= f.grade_max[1])
            /\ f.classroom # Null => subs[k].classroom = f.classroom[1]
            /\ f.student # "" => \E col \in subs[k].collaborators : NameMatches[col, f.student]}

\* ClassroomFilterForm.filter_queryset
ClassroomFilter(qs, search) ==
    IF search = "" THEN qs
    ELSE {k \in qs : \/ TextMatches[classrooms[k].title, search]
                     \/ TextMatches[classrooms[k].description, search]
                     \/ TeacherNameMatches[classrooms[k].teacher, search]}

(***************************************************************************)
(* Classroom views.                                                        *)
(***************************************************************************)
Done == steps' = steps + 1

\* fault: an owner check that is satisfied by any teacher
IsClassroomOwnerAnyTeacher(u, c) == is_teacher(u)

\* ClassroomOwnerMixin.test_func on a Classroom
IsClassroomOwner(u, c) == u = c.teacher

\* fault: a member check that is satisfied by any student
ClassroomMemberTestAnyStudent(u, c) ==
    IF is_teacher(u) /\ classrooms[c].teacher = u THEN TRUE
    ELSE ~is_teacher(u)

\* ClassroomMemberMixin.test_func
ClassroomMemberTest(u, c) ==
    IF is_teacher(u) /\ classrooms[c].teacher = u THEN TRUE
    ELSE is_student_member(memberships, c, u)

\* ClassroomDetailView (ClassroomMemberMixin): a read, no row changes
ClassroomDetailOutcome(u, pk) ==
    IF pk \notin DOMAIN classrooms THEN "notfound"
    ELSE IF ~ClassroomMemberTest(u, pk) THEN "forbidden"
    ELSE "ok"

\* ClassroomMemberListView (ClassroomMemberMixin): dispatch fetches the classroom,
\* the queryset is the classroom's memberships
ClassroomMemberListOutcome(u, pk) ==
    IF pk \notin DOMAIN classrooms THEN "notfound"
    ELSE IF ~ClassroomMemberTest(u, pk) THEN "forbidden"
    ELSE "ok"

\* ClassroomCreateView (TeacherRequiredMixin); code: what generate_join_code returns
ClassroomCreateCheck(u, inp) ==
    IF ~is_teacher(u) THEN "forbidden"
    ELSE IF ~ClassroomFormValid(inp) THEN "invalid"
    ELSE "ok"

\* the save of a classroom row pk with this code: refused (IntegrityError) when
\* another row holds the code
JoinCodeSaveOutcome(code, pk) == IF JoinCodeUnique(classrooms, code, pk) THEN "ok" ELSE "error"

ClassroomCreateOutcome(u, inp, code) ==
    IF ClassroomCreateCheck(u, inp) # "ok" THEN ClassroomCreateCheck(u, inp)
    ELSE JoinCodeSaveOutcome(code, nextClassroomPk)

ClassroomCreate(u, inp, code) ==
    /\ ClassroomCreateCheck(u, inp) = "ok"
    /\ IF JoinCodeSaveOutcome(code, nextClassroomPk) = "ok"
       THEN /\ classrooms' = classrooms @@ (nextClassroomPk :>
                    [title |-> inp.title, description |-> inp.description,
                     requirements_file |-> inp.requirements_file,
                     join_code |-> code, teacher |-> u])
            /\ nextClassroomPk' = nextClassroomPk + 1
       ELSE UNCHANGED <<classrooms, nextClassroomPk>>
    /\ Done
    /\ UNCHANGED <<memberships, subs, nextSubPk, reqs>>

\* ClassroomUpdateView (ClassroomOwnerMixin, ClassroomUpdateForm)
ClassroomUpdateOutcome(u, pk, inp) ==
    IF pk \notin DOMAIN classrooms THEN "notfound"
    ELSE IF ~IsClassroomOwner(u, classrooms[pk]) THEN "forbidden"
    ELSE IF ~ClassroomFormValid(inp) THEN "invalid"
    ELSE "ok"

ClassroomUpdate(u, pk, inp) ==
    /\ ClassroomUpdateOutcome(u, pk, inp) = "ok"
    /\ classrooms' = [classrooms EXCEPT ![pk] =
           [@ EXCEPT !.title = inp.title, !.description = inp.description,
                     !.requirements_file = inp.requirements_file]]
    /\ Done
    /\ UNCHANGED <<nextClassroomPk, memberships, subs, nextSubPk, reqs>>

\* ClassroomDeleteView (ClassroomOwnerMixin); memberships and submissions cascade
ClassroomDeleteOutcome(u, pk) ==
    IF pk \notin DOMAIN classrooms THEN "notfound"
    ELSE IF ~IsClassroomOwner(u, classrooms[pk]) THEN "forbidden"
    ELSE "ok"

ClassroomDelete(u, pk) ==
    /\ ClassroomDeleteOutcome(u, pk) = "ok"
    /\ classrooms' = [k \in DOMAIN classrooms \ {pk} |-> classrooms[k]]
    /\ memberships' = MembershipCascade(memberships, pk)
    /\ subs' = SubmissionCascade(subs, pk)
    /\ Done
    /\ UNCHANGED <<nextClassroomPk, nextSubPk, reqs>>

\* RegenerateJoinCodeView (ClassroomOwnerMixin) -> Classroom.regenerate_join_code;
\* code: what generate_join_code returns
RegenerateJoinCodeCheck(u, pk) ==
    IF pk \notin DOMAIN classrooms THEN "notfound"
    ELSE IF ~IsClassroomOwner(u, classrooms[pk]) THEN "forbidden"
    ELSE "ok"

RegenerateJoinCodeOutcome(u, pk, code) ==
    IF RegenerateJoinCodeCheck(u, pk) # "ok" THEN RegenerateJoinCodeCheck(u, pk)
    ELSE JoinCodeSaveOutcome(code, pk)

RegenerateJoinCode(u, pk, code) ==
    /\ RegenerateJoinCodeCheck(u, pk) = "ok"
    /\ IF JoinCodeSaveOutcome(code, pk) = "ok"
       THEN classrooms' = [classrooms EXCEPT ![pk].join_code = code]
       ELSE UNCHANGED classrooms
    /\ Done
    /\ UNCHANGED <<nextClassroomPk, memberships, subs, nextSubPk, reqs>>

(***************************************************************************)
(* Membership views.                                                       *)
(***************************************************************************)
\* JoinClassroomForm.save: the insert succeeds unless the unique constraint (or the
\* foreign key, when the classroom is gone) refuses it: IntegrityError
JoinSaveOutcome(u, c) ==
    IF c \in DOMAIN classrooms /\ MembershipUnique(memberships, c, u) THEN "ok" ELSE "error"

\* fault: a join view open to every role
JoinCheckOutcomeAnyRole(u, typed) ==
    IF ~JoinFormClean(classrooms, memberships, u, typed).valid THEN "invalid" ELSE "ok"

\* JoinClassroomView (StudentRequiredMixin, JoinClassroomForm): the checks before the save
JoinCheckOutcome(u, typed) ==
    IF is_teacher(u) THEN "forbidden"
    ELSE IF ~JoinFormClean(classrooms, memberships, u, typed).valid THEN "invalid"
    ELSE "ok"

JoinClassroomOutcome(u, typed) ==
    IF JoinCheckOutcome(u, typed) # "ok" THEN JoinCheckOutcome(u, typed)
    ELSE JoinSaveOutcome(u, JoinFormClean(classrooms, memberships, u, typed).classroom)

\* JoinClassroomForm.save
JoinFormSave(u, c) ==
    IF JoinSaveOutcome(u, c) = "ok"
    THEN memberships' = MembershipInsert(memberships, c, u)
    ELSE UNCHANGED memberships

\* one request at a time
JoinClassroom(u, typed) ==
    /\ JoinCheckOutcome(u, typed) = "ok"
    /\ JoinFormSave(u, JoinFormClean(classrooms, memberships, u, typed).classroom)
    /\ Done
    /\ UNCHANGED <<classrooms, nextClassroomPk, subs, nextSubPk, reqs>>

\* LeaveClassroomView (StudentRequiredMixin)
LeaveClassroomOutcome(u, c) ==
    IF is_teacher(u) THEN "forbidden"
    ELSE IF ~is_student_member(memberships, c, u) THEN "notfound"
    ELSE "ok"

\* fault: a leave that also takes the student out of the collaborator sets of the
\* classroom's submissions
LeaveClassroomDropsCollaborator(u, c) ==
    /\ LeaveClassroomOutcome(u, c) = "ok"
    /\ memberships' = MembershipDelete(memberships, c, u)
    /\ subs' = [pk \in DOMAIN subs |->
                   IF subs[pk].classroom = c
                   THEN [subs[pk] EXCEPT !.collaborators = @ \ {u}]
                   ELSE subs[pk]]
    /\ Done
    /\ UNCHANGED <<classrooms, nextClassroomPk, nextSubPk, reqs>>

LeaveClassroom(u, c) ==
    /\ LeaveClassroomOutcome(u, c) = "ok"
    /\ memberships' = MembershipDelete(memberships, c, u)
    /\ Done
    /\ UNCHANGED <<classrooms, nextClassroomPk, subs, nextSubPk, reqs>>

\* RemoveMemberView (ClassroomOwnerMixin): get_object returns the ClassroomMembership,
\* and test_func reads its .teacher, which a ClassroomMembership does not have:
\* AttributeError, whoever asks.
RemoveMemberOutcome(u, c, student) ==
    IF c \notin DOMAIN classrooms THEN "notfound"
    ELSE IF ~is_student_member(memberships, c, student) THEN "notfound"
    ELSE "error"

RemoveMember(u, c, student) ==
    /\ RemoveMemberOutcome(u, c, student) \in {"ok", "error"}
    /\ IF RemoveMemberOutcome(u, c, student) = "ok"
       THEN memberships' = MembershipDelete(memberships, c, student)
       ELSE UNCHANGED memberships
    /\ Done
    /\ UNCHANGED <<classrooms, nextClassroomPk, subs, nextSubPk, reqs>>

(***************************************************************************)
(* Submission views.                                                       *)
(***************************************************************************)
\* fault: a save that stores the selection as posted
NewSubmissionAsSelected(c, u, inp, sel) ==
    [classroom |-> c, created_by |-> u,
     title |-> inp.title, description |-> inp.description,
     repository_url |-> inp.repository_url, deployed_url |-> inp.deployed_url,
     collaborators |-> sel,
     status |-> DRAFT, grade |-> Null, teacher_notes |-> "", submitted_at |-> Null]

\* ProjectSubmissionCreateForm.save: the new row, the creator added to the selected collaborators
NewSubmission(c, u, inp, sel) ==
    [classroom |-> c, created_by |-> u,
     title |-> inp.title, description |-> inp.description,
     repository_url |-> inp.repository_url, deployed_url |-> inp.deployed_url,
     collaborators |-> sel \cup {u},
     status |-> DRAFT, grade |-> Null, teacher_notes |-> "", submitted_at |-> Null]

\* the insert succeeds unless the unique constraint (or the foreign key, when the
\* classroom is gone) refuses it: IntegrityError
CreateSaveOutcome(u, c) ==
    IF c \in DOMAIN classrooms /\ SubmissionUnique(subs, c, u) THEN "ok" ELSE "error"

\* fault: a dispatch without the membership check
CreateCheckOutcomeNoMembership(u, c, inp, sel) ==
    IF c \notin DOMAIN classrooms THEN "notfound"
    ELSE IF SubmissionExists(subs, c, u) THEN "conflict"
    ELSE IF is_teacher(u) THEN "forbidden"
    ELSE IF ~CreateFormValid(memberships, subs, c, u, inp, sel) THEN "invalid"
    ELSE "ok"

\* SubmissionCreateView.dispatch, then StudentRequiredMixin, then the form
CreateCheckOutcome(u, c, inp, sel) ==
    IF c \notin DOMAIN classrooms THEN "notfound"
    ELSE IF ~is_student_member(memberships, c, u) THEN "forbidden"
    ELSE IF SubmissionExists(subs, c, u) THEN "conflict"
    ELSE IF is_teacher(u) THEN "forbidden"
    ELSE IF ~CreateFormValid(memberships, subs, c, u, inp, sel) THEN "invalid"
    ELSE "ok"

SubmissionCreateOutcome(u, c, inp, sel) ==
    IF CreateCheckOutcome(u, c, inp, sel) # "ok" THEN CreateCheckOutcome(u, c, inp, sel)
    ELSE CreateSaveOutcome(u, c)

\* ProjectSubmissionCreateForm.save
CreateFormSave(u, c, inp, sel) ==
    IF CreateSaveOutcome(u, c) = "ok"
    THEN /\ subs' = subs @@ (nextSubPk :> NewSubmission(c, u, inp, sel))
         /\ nextSubPk' = nextSubPk + 1
    ELSE UNCHANGED <<subs, nextSubPk>>

\* SubmissionCreateView, one request at a time
SubmissionCreate(u, c, inp, sel) ==
    /\ CreateCheckOutcome(u, c, inp, sel) = "ok"
    /\ CreateFormSave(u, c, inp, sel)
    /\ Done
    /\ UNCHANGED <<classrooms, nextClassroomPk, memberships, reqs>>

\* SubmissionUpdateView (SubmissionEditMixin, ProjectSubmissionUpdateForm)
SubmissionUpdateOutcome(u, pk, inp, sel) ==
    IF pk \notin DOMAIN subs THEN "notfound"
    ELSE IF ~can_user_edit(subs[pk], u) THEN "forbidden"
    ELSE IF ~UpdateFormValid(memberships, subs[pk], sel) THEN "invalid"
    ELSE "ok"

SubmissionUpdate(u, pk, inp, sel) ==
    /\ SubmissionUpdateOutcome(u, pk, inp, sel) = "ok"
    /\ subs' = [subs EXCEPT ![pk] =
           [@ EXCEPT !.title = inp.title, !.description = inp.description,
                     !.repository_url = inp.repository_url, !.deployed_url = inp.deployed_url,
                     !.collaborators = sel]]
    /\ Done
    /\ UNCHANGED <<classrooms, nextClassroomPk, memberships, nextSubPk, reqs>>

\* fault: a delete view that asks only whether the user is a collaborator
SubmissionDeleteOutcomeAnyStatus(u, pk) ==
    IF pk \notin DOMAIN subs THEN "notfound"
    ELSE IF u \notin subs[pk].collaborators THEN "forbidden"
    ELSE "ok"

\* SubmissionDetailView (SubmissionAccessMixin): a read, no row changes
SubmissionDetailOutcome(u, pk) ==
    IF pk \notin DOMAIN subs THEN "notfound"
    ELSE IF ~can_user_view(subs[pk], u) THEN "forbidden"
    ELSE "ok"

\* SubmissionDeleteView (SubmissionEditMixin)
SubmissionDeleteOutcome(u, pk) ==
    IF pk \notin DOMAIN subs THEN "notfound"
    ELSE IF ~can_user_edit(subs[pk], u) THEN "forbidden"
    ELSE "ok"

SubmissionDelete(u, pk) ==
    /\ SubmissionDeleteOutcome(u, pk) = "ok"
    /\ subs' = [k \in DOMAIN subs \ {pk} |-> subs[k]]
    /\ Done
    /\ UNCHANGED <<classrooms, nextClassroomPk, memberships, nextSubPk, reqs>>

\* SubmissionSubmitView (SubmissionEditMixin, ProjectSubmitForm) -> ProjectSubmission.submit;
\* confirm: the confirmation box, now: timezone.now()
SubmissionSubmitOutcome(u, pk, confirm, now) ==
    IF pk \notin DOMAIN subs THEN "notfound"
    ELSE IF ~can_user_edit(subs[pk], u) THEN "forbidden"
    ELSE IF ~confirm THEN "invalid"
    ELSE IF ~submit(subs[pk], now).ok THEN "failed"
    ELSE "ok"

SubmissionSubmit(u, pk, confirm, now) ==
    /\ SubmissionSubmitOutcome(u, pk, confirm, now) \in {"ok", "failed"}
    /\ subs' = [subs EXCEPT ![pk] = submit(subs[pk], now).row]
    /\ Done
    /\ UNCHANGED <<classrooms, nextClassroomPk, memberships, nextSubPk, reqs>>

\* SubmissionDetailView.get_context_data: context['can_grade']
can_grade(u, pk) ==
    is_teacher(u) /\ classrooms[subs[pk].classroom].teacher = u /\ is_submitted(subs[pk])

\* fault: a grade view that asks for a teacher and not for the owner
GradeSubmissionOutcomeAnyTeacher(u, pk, grade, notes) ==
    IF pk \notin DOMAIN subs THEN "notfound"
    ELSE IF ~is_submitted(subs[pk]) THEN "forbidden"
    ELSE IF ~is_teacher(u) THEN "forbidden"
    ELSE IF ~GradeFormValid(subs[pk], grade) THEN "invalid"
    ELSE "ok"

\* GradeSubmissionView (TeacherRequiredMixin, GradeSubmissionForm): dispatch checks the
\* owner, then the status; the form's save writes grade and teacher_notes as cleaned
GradeSubmissionOutcome(u, pk, grade, notes) ==
    IF pk \notin DOMAIN subs THEN "notfound"
    ELSE IF classrooms[subs[pk].classroom].teacher # u THEN "forbidden"
    ELSE IF ~is_submitted(subs[pk]) THEN "forbidden"
    ELSE IF ~is_teacher(u) THEN "forbidden"
    ELSE IF ~GradeFormValid(subs[pk], grade) THEN "invalid"
    ELSE "ok"

\* fault: a grading that reopens the submission for editing
GradeSubmissionReopens(u, pk, grade, notes) ==
    /\ GradeSubmissionOutcome(u, pk, grade, notes) = "ok"
    /\ subs' = [subs EXCEPT ![pk] = [@ EXCEPT !.grade = grade, !.teacher_notes = notes, !.status = DRAFT]]
    /\ Done
    /\ UNCHANGED <<classrooms, nextClassroomPk, memberships, nextSubPk, reqs>>

GradeSubmission(u, pk, grade, notes) ==
    /\ GradeSubmissionOutcome(u, pk, grade, notes) = "ok"
    /\ subs' = [subs EXCEPT ![pk] = [@ EXCEPT !.grade = grade, !.teacher_notes = notes]]
    /\ Done
    /\ UNCHANGED <<classrooms, nextClassroomPk, memberships, nextSubPk, reqs>>

(***************************************************************************)
(* List views: reads, no row changes.  A queryset is the set of the pks of *)
(* its rows.                                                               *)
(***************************************************************************)
\* ClassroomListView.get_queryset
ClassroomListQueryset(u, search) ==
    ClassroomFilter(IF is_teacher(u) THEN Classroom_for_teacher(classrooms, u)
                    ELSE Classroom_for_student(classrooms, memberships, u), search)

\* ClassroomDetailView.get_context_data: context['submissions'] (its owner's page)
ClassroomDetailSubmissions(u, c) ==
    IF is_teacher(u) /\ classrooms[c].teacher = u THEN for_classroom(subs, c, u) ELSE {}

\* SubmissionListView.get_queryset
SubmissionListQueryset(u, f) ==
    SubmissionFilter(IF is_teacher(u) THEN for_teacher(classrooms, subs, u)
                     ELSE for_student(subs, u), u, f)

\* TeacherSubmissionListView (TeacherRequiredMixin)
TeacherSubmissionListOutcome(u) == IF ~is_teacher(u) THEN "forbidden" ELSE "ok"

TeacherSubmissionListQueryset(u, f) == SubmissionFilter(for_teacher(classrooms, subs, u), u, f)

\* ClassroomSubmissionListView: dispatch fetches the classroom with teacher=request.user
ClassroomSubmissionListOutcome(u, c) ==
    IF c \notin DOMAIN classrooms \/ classrooms[c].teacher # u THEN "notfound"
    ELSE IF ~is_teacher(u) THEN "forbidden"
    ELSE "ok"

\* ClassroomSubmissionListView.get_queryset
ClassroomSubmissionListQueryset(u, c, f) ==
    SubmissionFilter({k \in DOMAIN subs : subs[k].classroom = c}, u, f)

(***************************************************************************)
(* The sequential specification: one request at a time.                    *)
(***************************************************************************)
NoRows == [k \in {} |-> k]

ClassroomPks == 1..MaxClassrooms
SubmissionPks == 1..MaxSubmissions

Init ==
    /\ classrooms = NoRows
    /\ nextClassroomPk = 1
    /\ memberships = NoRows
    /\ subs = NoRows
    /\ nextSubPk = 1
    /\ reqs = [w \in Workers |-> Idle]
    /\ steps = 0

Within == steps < MaxSteps

Next ==
    \/ Within /\ nextClassroomPk <= MaxClassrooms /\ \E u \in Users, inp \in ClassroomCreateInputs, code \in generate_join_code :
            ClassroomCreate(u, inp, code)
    \/ Within /\ \E u \in Users, pk \in ClassroomPks, inp \in ClassroomInputs :
            ClassroomUpdate(u, pk, inp)
    \/ Within /\ \E u \in Users, pk \in ClassroomPks :
            ClassroomDelete(u, pk)
    \/ Within /\ \E u \in Users, pk \in ClassroomPks, code \in generate_join_code :
            RegenerateJoinCode(u, pk, code)
    \/ Within /\ \E u \in Users, typed \in TypedCodes :
            JoinClassroom(u, typed)
    \/ Within /\ \E u \in Users, c \in ClassroomPks :
            LeaveClassroom(u, c)
    \/ Within /\ \E u \in Users, c \in ClassroomPks, student \in Users :
            RemoveMember(u, c, student)
    \/ Within /\ nextSubPk <= MaxSubmissions /\ \E u \in Users, c \in ClassroomPks, inp \in SubmissionInputs, sel \in CollaboratorInputs :
            SubmissionCreate(u, c, inp, sel)
    \/ Within /\ \E u \in Users, pk \in SubmissionPks, inp \in SubmissionInputs, sel \in CollaboratorInputs :
            SubmissionUpdate(u, pk, inp, sel)
    \/ Within /\ \E u \in Users, pk \in SubmissionPks :
            SubmissionDelete(u, pk)
    \/ Within /\ \E u \in Users, pk \in SubmissionPks, confirm \in BOOLEAN, now \in Times :
            SubmissionSubmit(u, pk, confirm, now)
    \/ Within /\ \E u \in Users, pk \in SubmissionPks, grade \in GradeInputs, notes \in NotesInputs :
            GradeSubmission(u, pk, grade, notes)

Spec == Init /\ [][Next]_vars

(***************************************************************************)
(* Properties of the sequential specification.                             *)
(***************************************************************************)
\* C1: with one request at a time, no step takes a submission whose status is
\* SUBMITTED back to DRAFT (the row stays SUBMITTED as long as it exists), and a
\* grading step leaves the graded submission SUBMITTED.
C1_SubmittedIsPermanent ==
    [][ /\ \A pk \in DOMAIN subs :
              (is_submitted(subs[pk]) /\ pk \in DOMAIN subs') => subs'[pk].status = SUBMITTED
        /\ \A u \in Users, pk \in DOMAIN subs, grade \in GradeInputs, notes \in NotesInputs :
              GradeSubmission(u, pk, grade, notes) =>
                  (subs[pk].status = SUBMITTED /\ subs'[pk].status = SUBMITTED) ]_vars

\* C1 witness: a submitted submission has been graded and is still SUBMITTED
C1_Witness ==
    \E pk \in DOMAIN subs : subs[pk].status = SUBMITTED /\ subs[pk].grade = <<20>>

\* the strings of the model that match [A-Z0-9]{8}
WellFormedCodes == {code \in TypedCodes : IsJoinCode(code)}

\* C4: in every reachable state no two classrooms hold the same join_code, and every
\* join_code is 8 characters drawn from the uppercase letters and the digits.
C4_JoinCodesUniqueAndWellFormed ==
    /\ \A a, b \in DOMAIN classrooms : a # b => classrooms[a].join_code # classrooms[b].join_code
    /\ \A a \in DOMAIN classrooms : classrooms[a].join_code \in WellFormedCodes

\* C4 witness: two classrooms exist, and regenerating the code of one to the code the
\* other holds is refused by the store
C4_Witness ==
    \E a, b \in DOMAIN classrooms :
        /\ a # b
        /\ RegenerateJoinCodeOutcome(classrooms[a].teacher, a, classrooms[b].join_code) = "error"

\* C5: for every user u and submission s, can_user_edit(s, u) holds exactly when s is
\* DRAFT and u is one of its collaborators; it is false for every teacher, the owner of
\* the classroom included; the edit views (update, delete, submit) refuse exactly the
\* users for whom it is false.
C5_CanEditIffDraftCollaborator ==
    \A pk \in DOMAIN subs, u \in Users :
        LET s == subs[pk]
            allowed == s.status = DRAFT /\ u \in s.collaborators
        IN /\ can_user_edit(s, u) <=> allowed
           /\ is_teacher(u) => ~can_user_edit(s, u)
           /\ (SubmissionDeleteOutcome(u, pk) = "forbidden") <=> ~allowed
           /\ \A now \in Times : (SubmissionSubmitOutcome(u, pk, TRUE, now) = "forbidden") <=> ~allowed
           /\ \A inp \in SubmissionInputs, sel \in CollaboratorInputs :
                  (SubmissionUpdateOutcome(u, pk, inp, sel) = "forbidden") <=> ~allowed

\* C5 witness: a DRAFT submission with two collaborators, which both may edit and the
\* teacher who owns its classroom may not
C5_Witness ==
    \E pk \in DOMAIN subs :
        /\ subs[pk].status = DRAFT
        /\ subs[pk].collaborators = {"s1", "s2"}
        /\ can_user_edit(subs[pk], "s1") /\ can_user_edit(subs[pk], "s2")
        /\ ~can_user_edit(subs[pk], classrooms[subs[pk].classroom].teacher)

\* C6: grading a SUBMITTED submission (by the teacher who owns its classroom) with an
\* integer grade g: when 1 <= g <= 20 the request succeeds, and a grading step stores
\* the supplied grade and notes in place of the earlier ones and changes nothing else;
\* when g < 1 or g > 20 the request fails validation, and the stored grade and notes
\* change in no step but a successful grading, which stores what it was given.
C6_GradeInRangeOverwrites ==
    /\ [](\A u \in Users, pk \in DOMAIN subs, grade \in GradeInputs \ {Null}, notes \in NotesInputs :
            (subs[pk].status = SUBMITTED /\ is_teacher(u) /\ classrooms[subs[pk].classroom].teacher = u) =>
                /\ (1 <= grade[1] /\ grade[1] <= 20) =>
                       /\ GradeSubmissionOutcome(u, pk, grade, notes) = "ok"
                       /\ assign_grade(subs[pk], grade, notes).ok
                       /\ assign_grade(subs[pk], grade, notes).row =
                              [subs[pk] EXCEPT !.grade = grade, !.teacher_notes = notes]
                /\ (grade[1] < 1 \/ grade[1] > 20) =>
                       GradeSubmissionOutcome(u, pk, grade, notes) = "invalid")
    /\ [][\A pk \in DOMAIN subs \cap DOMAIN subs' :
            /\ \A u \in Users, grade \in GradeInputs, notes \in NotesInputs :
                   GradeSubmission(u, pk, grade, notes) =>
                       subs'[pk] = [subs[pk] EXCEPT !.grade = grade, !.teacher_notes = notes]
            /\ (subs'[pk].grade # subs[pk].grade \/ subs'[pk].teacher_notes # subs[pk].teacher_notes) =>
                   \E u \in Users, grade \in GradeInputs, notes \in NotesInputs :
                       /\ GradeSubmissionOutcome(u, pk, grade, notes) = "ok"
                       /\ subs'[pk].grade = grade
                       /\ subs'[pk].teacher_notes = notes ]_vars

\* C6 witness: a submission graded 20 with notes, for which the owner's next grading
\* with 1 and empty notes is accepted and with 21 is refused
C6_Witness ==
    \E pk \in DOMAIN subs :
        LET owner == classrooms[subs[pk].classroom].teacher
        IN /\ subs[pk].status = SUBMITTED
           /\ subs[pk].grade = <<20>> /\ subs[pk].teacher_notes = "great"
           /\ GradeSubmissionOutcome(owner, pk, <<1>>, "") = "ok"
           /\ GradeSubmissionOutcome(owner, pk, <<21>>, "") = "invalid"

\* C7: grading a DRAFT submission is refused for every user, grade and notes, and
\* assign_grade on it returns False and leaves the row as it is; so every submission
\* with a grade is SUBMITTED and its grade is in 1..20.
C7_OnlySubmittedIsGraded ==
    \A pk \in DOMAIN subs :
        /\ subs[pk].grade # Null => (subs[pk].status = SUBMITTED /\ subs[pk].grade[1] \in 1..20)
        /\ subs[pk].status = DRAFT =>
               \A u \in Users, grade \in GradeInputs, notes \in NotesInputs :
                   /\ GradeSubmissionOutcome(u, pk, grade, notes) \in {"forbidden", "invalid"}
                   /\ ~assign_grade(subs[pk], grade, notes).ok
                   /\ assign_grade(subs[pk], grade, notes).row = subs[pk]

\* C7 witness: a DRAFT submission without a grade, which the owner of its classroom
\* is refused to grade
C7_Witness ==
    \E pk \in DOMAIN subs :
        /\ subs[pk].status = DRAFT /\ subs[pk].grade = Null
        /\ GradeSubmissionOutcome(classrooms[subs[pk].classroom].teacher, pk, <<20>>, "great") = "forbidden"

\* C8: an update request succeeds only on a DRAFT submission; on a SUBMITTED one it is
\* refused for every user and input, and no step changes the title, description, URLs,
\* collaborators, status or submitted_at of a SUBMITTED submission; a step that changes
\* one of the edited fields is an update by a collaborator of a DRAFT submission and
\* leaves status, grade and submitted_at as they are; on a DRAFT submission every update
\* by a collaborator with acceptable fields succeeds, however many came before.
C8_UpdateOnlyWhileDraft ==
    /\ [](\A u \in Users, pk \in DOMAIN subs, inp \in SubmissionInputs, sel \in CollaboratorInputs :
            LET s == subs[pk]
                out == SubmissionUpdateOutcome(u, pk, inp, sel)
            IN /\ out = "ok" => s.status = DRAFT
               /\ s.status = SUBMITTED => out = "forbidden"
               /\ ( /\ s.status = DRAFT
                    /\ u \in s.collaborators
                    /\ sel # {}
                    /\ sel \subseteq CollaboratorChoices(memberships, s.classroom) ) => out = "ok")
    /\ [][\A pk \in DOMAIN subs \cap DOMAIN subs' :
            /\ subs[pk].status = SUBMITTED =>
                   /\ subs'[pk].title = subs[pk].title
                   /\ subs'[pk].description = subs[pk].description
                   /\ subs'[pk].repository_url = subs[pk].repository_url
                   /\ subs'[pk].deployed_url = subs[pk].deployed_url
                   /\ subs'[pk].collaborators = subs[pk].collaborators
                   /\ subs'[pk].status = subs[pk].status
                   /\ subs'[pk].submitted_at = subs[pk].submitted_at
            /\ ( \/ subs'[pk].title # subs[pk].title
                 \/ subs'[pk].description # subs[pk].description
                 \/ subs'[pk].repository_url # subs[pk].repository_url
                 \/ subs'[pk].deployed_url # subs[pk].deployed_url
                 \/ subs'[pk].collaborators # subs[pk].collaborators ) =>
                   /\ subs[pk].status = DRAFT /\ subs'[pk].status = DRAFT
                   /\ subs'[pk].grade = subs[pk].grade
                   /\ subs'[pk].submitted_at = subs[pk].submitted_at
                   /\ \E u \in subs[pk].collaborators, inp \in SubmissionInputs :
                          SubmissionUpdate(u, pk, inp, subs'[pk].collaborators) ]_vars

\* C8 witness: a submission that was updated while DRAFT and then submitted, whose
\* collaborator is now refused an update
C8_Witness ==
    \E pk \in DOMAIN subs :
        /\ subs[pk].status = SUBMITTED
        /\ subs[pk].title = "Shop 2"
        /\ \E u \in subs[pk].collaborators :
               SubmissionUpdateOutcome(u, pk, CHOOSE inp \in SubmissionInputs : inp.title = "Shop", {u}) = "forbidden"

\* C9: submit() on a DRAFT submission returns True and saves status SUBMITTED with
\* submitted_at set to the current time, nothing else changed; on a SUBMITTED one it
\* returns False and saves nothing, so the earlier submitted_at is kept; the submit
\* request never ends in an exception, and succeeds exactly for a collaborator of a
\* DRAFT submission who confirms.
C9_SubmitOnceThenFails ==
    \A pk \in DOMAIN subs, now \in Times :
        LET s == subs[pk]
            r == submit(s, now)
        IN /\ s.status = DRAFT =>
                  (r.ok /\ r.row = [s EXCEPT !.status = SUBMITTED, !.submitted_at = <<now>>])
           /\ s.status = SUBMITTED => (~r.ok /\ r.row = s)
           /\ \A u \in Users, confirm \in BOOLEAN :
                  /\ SubmissionSubmitOutcome(u, pk, confirm, now) # "error"
                  /\ (SubmissionSubmitOutcome(u, pk, confirm, now) = "ok") <=>
                         (s.status = DRAFT /\ u \in s.collaborators /\ confirm)

\* C9 witness: a submission submitted at time 1, on which submit() at time 2 returns
\* False and keeps the row
C9_Witness ==
    \E pk \in DOMAIN subs :
        /\ subs[pk].status = SUBMITTED /\ subs[pk].submitted_at = <<1>>
        /\ ~submit(subs[pk], 2).ok
        /\ submit(subs[pk], 2).row = subs[pk]

\* C10: in every state a submission's submitted_at is set exactly when its status is
\* SUBMITTED; the two change in the same step, which is a submit of a DRAFT submission,
\* and no other step writes submitted_at.
C10_SubmittedAtIffSubmitted ==
    /\ [](\A pk \in DOMAIN subs : (subs[pk].submitted_at # Null) <=> (subs[pk].status = SUBMITTED))
    /\ [][\A pk \in DOMAIN subs \cap DOMAIN subs' :
            /\ (subs'[pk].submitted_at # subs[pk].submitted_at) <=> (subs'[pk].status # subs[pk].status)
            /\ (subs'[pk].submitted_at # subs[pk].submitted_at) =>
                   /\ subs[pk].status = DRAFT /\ subs'[pk].status = SUBMITTED
                   /\ \E u \in Users, now \in Times :
                          SubmissionSubmit(u, pk, TRUE, now) /\ subs'[pk].submitted_at = <<now>> ]_vars

\* C10 witness: one submission submitted, with its time, next to one still DRAFT,
\* without a time
C10_Witness ==
    \E a, b \in DOMAIN subs :
        /\ subs[a].status = SUBMITTED /\ subs[a].submitted_at = <<2>>
        /\ subs[b].status = DRAFT /\ subs[b].submitted_at = Null

\* C11: a delete request is accepted exactly for a collaborator of a DRAFT submission
\* and refused on a SUBMITTED one for every user; a delete step removes that one DRAFT
\* row and nothing else, and a SUBMITTED row leaves the table in no step of the
\* submission handlers (only together with its classroom).
C11_DeleteOnlyWhileDraft ==
    /\ [](\A u \in Users, pk \in DOMAIN subs :
            /\ (SubmissionDeleteOutcome(u, pk) = "ok") <=>
                   (subs[pk].status = DRAFT /\ u \in subs[pk].collaborators)
            /\ subs[pk].status = SUBMITTED => SubmissionDeleteOutcome(u, pk) = "forbidden")
    /\ [][\A pk \in DOMAIN subs :
            /\ \A u \in Users :
                   SubmissionDelete(u, pk) =>
                       /\ subs[pk].status = DRAFT /\ u \in subs[pk].collaborators
                       /\ subs' = [k \in DOMAIN subs \ {pk} |-> subs[k]]
            /\ (subs[pk].status = SUBMITTED /\ pk \notin DOMAIN subs') =>
                   subs[pk].classroom \notin DOMAIN classrooms' ]_vars

\* C11 witness: the first submission was deleted as a draft (its classroom, the only
\* one ever created, is still there), and the second, now SUBMITTED, is still there and its collaborator is refused the delete
C11_Witness ==
    /\ nextClassroomPk = 2 /\ 1 \in DOMAIN classrooms
    /\ nextSubPk > 1 /\ 1 \notin DOMAIN subs
    /\ \E pk \in DOMAIN subs :
           /\ subs[pk].status = SUBMITTED
           /\ \E u \in subs[pk].collaborators : SubmissionDeleteOutcome(u, pk) = "forbidden"

\* C12: in every reachable state the creator of a submission (created_by) is one of
\* its collaborators.  (Refuted: the update form stores the selection as posted.)
C12_CreatorIsCollaborator ==
    \A pk \in DOMAIN subs : subs[pk].created_by \in subs[pk].collaborators

\* C13: a step that stores a new submission is a create by a student S for a classroom
\* C with a selection X, and the new row has collaborators X \cup {S} ({S} when X is
\* empty), status DRAFT, no grade, no submitted_at, classroom C and created_by S; the
\* rows that were there stay as they were.
C13_CreateStoresDraftWithCreator ==
    [][nextSubPk' # nextSubPk =>
          /\ DOMAIN subs' = DOMAIN subs \cup {nextSubPk}
          /\ nextSubPk \notin DOMAIN subs
          /\ \A k \in DOMAIN subs : subs'[k] = subs[k]
          /\ \E u \in Students, c \in DOMAIN classrooms, inp \in SubmissionInputs, sel \in CollaboratorInputs :
                 SubmissionCreate(u, c, inp, sel)
          /\ \A u \in Users, c \in ClassroomPks, inp \in SubmissionInputs, sel \in CollaboratorInputs :
                 SubmissionCreate(u, c, inp, sel) =>
                     /\ subs'[nextSubPk].collaborators = sel \cup {u}
                     /\ (sel = {} => subs'[nextSubPk].collaborators = {u})
                     /\ subs'[nextSubPk].status = DRAFT
                     /\ subs'[nextSubPk].grade = Null
                     /\ subs'[nextSubPk].submitted_at = Null
                     /\ subs'[nextSubPk].classroom = c
                     /\ subs'[nextSubPk].created_by = u ]_vars

\* C13 witness: right after s1 created a submission with s2 selected (four requests:
\* the classroom, two joins, the create)
C13_Witness ==
    /\ steps = 4
    /\ \E pk \in DOMAIN subs :
           /\ subs[pk].created_by = "s1" /\ subs[pk].collaborators = {"s1", "s2"}
           /\ subs[pk].status = DRAFT /\ subs[pk].grade = Null /\ subs[pk].submitted_at = Null

\* the posted fields that the create form accepts (those with a repository URL on a known host)
AcceptedByCreate == {inp \in SubmissionInputs : RepositoryUrlValid[inp]}

\* C14: a create or an update is accepted only when every selected user is a
\* non-teacher who is a member of the submission's classroom at that moment (for a
\* create the same holds of the creator), and a selection with a user who is not, is
\* rejected; so right after a step that stores a new submission or changes a
\* collaborator set, every stored collaborator is a student member of the classroom.
C14_CollaboratorsAreCurrentMembers ==
    /\ [](\A c \in DOMAIN classrooms :
            LET members == {x \in Users : ~is_teacher(x) /\ MembershipCount(memberships, c, x) > 0}
            IN \A sel \in CollaboratorInputs, u \in Users, inp \in AcceptedByCreate :
                  /\ ~(sel \cup {u} \subseteq members) =>
                         SubmissionCreateOutcome(u, c, inp, sel) \in {"forbidden", "conflict", "invalid"}
                  /\ \A pk \in DOMAIN subs :
                         (subs[pk].classroom = c /\ ~(sel \subseteq members)) =>
                             SubmissionUpdateOutcome(u, pk, inp, sel) \in {"forbidden", "invalid"})
    /\ [][\A pk \in DOMAIN subs' :
            (pk \notin DOMAIN subs \/ subs'[pk].collaborators # subs[pk].collaborators) =>
                \A x \in subs'[pk].collaborators :
                    ~is_teacher(x) /\ MembershipCount(memberships', subs'[pk].classroom, x) > 0 ]_vars

\* C14 witness: s2, a collaborator of s1's draft, has left the classroom; an update that
\* keeps s2 selected is rejected, one that selects s1 alone is accepted
C14_Witness ==
    \E pk \in DOMAIN subs, inp \in SubmissionInputs :
        /\ subs[pk].status = DRAFT
        /\ subs[pk].collaborators = {"s1", "s2"}
        /\ MembershipCount(memberships, subs[pk].classroom, "s2") = 0
        /\ SubmissionUpdateOutcome("s1", pk, inp, {"s1", "s2"}) = "invalid"
        /\ SubmissionUpdateOutcome("s1", pk, inp, {"s1"}) = "ok"

\* C15: a create request for classroom c by a user who is not at that moment a student
\* member of c (never joined, has left, or is a teacher, the owner included) is refused,
\* and so is one by a member who already has a submission in c, also when the posted
\* fields are ones the form accepts; the creator of every
\* row a step stores was, before the step, a student member of its classroom without a
\* submission there.
C15_CreateNeedsMemberWithoutSubmission ==
    /\ [](\A c \in DOMAIN classrooms, u \in Users :
            IF MembershipCount(memberships, c, u) = 0 \/ is_teacher(u)
            THEN \A inp \in AcceptedByCreate, sel \in CollaboratorInputs :
                     SubmissionCreateOutcome(u, c, inp, sel) = "forbidden"
            ELSE (\E pk \in DOMAIN subs : subs[pk].classroom = c /\ subs[pk].created_by = u) =>
                     \A inp \in AcceptedByCreate, sel \in CollaboratorInputs :
                         SubmissionCreateOutcome(u, c, inp, sel) = "conflict")
    /\ [][nextSubPk' # nextSubPk =>
            LET new == subs'[nextSubPk]
            IN /\ ~is_teacher(new.created_by)
               /\ MembershipCount(memberships, new.classroom, new.created_by) > 0
               /\ \A pk \in DOMAIN subs :
                      ~(subs[pk].classroom = new.classroom /\ subs[pk].created_by = new.created_by) ]_vars

\* C15 witness: s1 created a submission and left the classroom, s2 joined and created
\* one; now s1 (no longer a member), the owner and s2 (who has one) are all refused
C15_Witness ==
    \E c \in DOMAIN classrooms, inp \in AcceptedByCreate :
        /\ \E pk \in DOMAIN subs : subs[pk].classroom = c /\ subs[pk].created_by = "s1"
        /\ MembershipCount(memberships, c, "s1") = 0
        /\ SubmissionCreateOutcome("s1", c, inp, {}) = "forbidden"
        /\ SubmissionCreateOutcome(classrooms[c].teacher, c, inp, {}) = "forbidden"
        /\ SubmissionCreateOutcome("s2", c, inp, {}) = "conflict"

\* what was typed, trimmed and in uppercase
TrimmedUpper == [typed \in TypedCodes |-> upper(strip(typed))]

\* C16: a join by a student S who typed a code that, trimmed and in uppercase, is the
\* join_code of classroom C, and who is not yet a member of C, is accepted, whatever
\* the letter case typed; the join step adds the one membership (C, S) and changes no
\* other.
C16_JoinIsCaseInsensitive ==
    /\ [](\A u \in Students, typed \in TypedCodes, c \in DOMAIN classrooms :
            (TrimmedUpper[typed] = classrooms[c].join_code /\ MembershipCount(memberships, c, u) = 0) =>
                JoinClassroomOutcome(u, typed) = "ok")
    /\ [][memberships' # memberships =>
            \A u \in Students, typed \in TypedCodes :
                JoinClassroom(u, typed) =>
                    \E c \in DOMAIN classrooms :
                        /\ TrimmedUpper[typed] = classrooms[c].join_code
                        /\ MembershipCount(memberships, c, u) = 0
                        /\ MembershipCount(memberships', c, u) = 1
                        /\ \A p \in DOMAIN memberships : memberships'[p] = memberships[p]
                        /\ DOMAIN memberships' = DOMAIN memberships \cup {<<c, u>>} ]_vars

\* C16 witness: s1 has joined the classroom with code AB12CD34, and s2, not yet a
\* member, is accepted with the same code typed in lowercase and with a code typed
\* with blanks around it
C16_Witness ==
    \E c \in DOMAIN classrooms :
        /\ classrooms[c].join_code = "AB12CD34"
        /\ MembershipCount(memberships, c, "s1") = 1
        /\ MembershipCount(memberships, c, "s2") = 0
        /\ JoinClassroomOutcome("s2", "ab12cd34") = "ok"
        /\ \E d \in DOMAIN classrooms :
               classrooms[d].join_code = "ZZZZ9999" /\ JoinClassroomOutcome("s2", " zzzz9999 ") = "ok"

\* C17: a join with a code that matches no classroom is rejected by the form, and so is
\* a join by a student who is already a member of the classroom the code matches;
\* memberships change in no step on their account: a membership that a step adds is
\* the first one of its pair and comes from a join that was accepted, and every other
\* membership a step changes is one that a leave or a classroom delete removes.
C17_FailedJoinChangesNothing ==
    /\ [](\A u \in Students, typed \in TypedCodes :
            LET matched == {c \in DOMAIN classrooms : TrimmedUpper[typed] = classrooms[c].join_code}
            IN /\ matched = {} => JoinClassroomOutcome(u, typed) = "invalid"
               /\ (\E c \in matched : MembershipCount(memberships, c, u) > 0) =>
                      JoinClassroomOutcome(u, typed) = "invalid")
    /\ [][memberships' # memberships =>
            \A c \in ClassroomPks, u \in Users :
                /\ MembershipCount(memberships', c, u) > MembershipCount(memberships, c, u) =>
                       /\ MembershipCount(memberships, c, u) = 0
                       /\ MembershipCount(memberships', c, u) = 1
                       /\ \E typed \in TypedCodes :
                              /\ JoinClassroomOutcome(u, typed) = "ok"
                              /\ TrimmedUpper[typed] = classrooms[c].join_code
                /\ MembershipCount(memberships', c, u) < MembershipCount(memberships, c, u) =>
                       \/ c \notin DOMAIN classrooms'
                       \/ LeaveClassroomOutcome(u, c) = "ok" ]_vars

\* C17 witness: s1 is a member of a classroom; a second join by s1 with its code is
\* rejected, and so is a join by s2 with a well-formed code that no classroom holds
C17_Witness ==
    \E c \in DOMAIN classrooms, typed \in generate_join_code :
        /\ MembershipCount(memberships, c, "s1") = 1
        /\ JoinClassroomOutcome("s1", classrooms[c].join_code) = "invalid"
        /\ \A d \in DOMAIN classrooms : classrooms[d].join_code # typed
        /\ JoinClassroomOutcome("s2", typed) = "invalid"

\* C18: in every reachable state no membership has a teacher as its student, the
\* teacher who owns a classroom is not a member of it, a join request by a teacher is
\* refused whatever was typed, and the join form itself rejects the owner of the
\* classroom that the code matches.
C18_NoTeacherIsMember ==
    /\ \A p \in DOMAIN memberships : memberships[p] > 0 => ~is_teacher(p[2])
    /\ \A c \in DOMAIN classrooms : MembershipCount(memberships, c, classrooms[c].teacher) = 0
    /\ \A t \in Teachers, typed \in TypedCodes : JoinClassroomOutcome(t, typed) = "forbidden"
    /\ \A c \in DOMAIN classrooms :
           ~JoinFormClean(classrooms, memberships, classrooms[c].teacher, classrooms[c].join_code).valid

\* C18 witness: a classroom with a student member, whose code is refused to its owner
\* and to the other teacher
C18_Witness ==
    \E c \in DOMAIN classrooms :
        /\ MembershipCount(memberships, c, "s1") = 1
        /\ classrooms[c].teacher = "t1"
        /\ JoinClassroomOutcome("t1", classrooms[c].join_code) = "forbidden"
        /\ JoinClassroomOutcome("t2", classrooms[c].join_code) = "forbidden"

\* C19: after a regenerate of classroom C's code that completes, a join with the code
\* C had immediately before is not accepted for C, and the new code of C differs from
\* the join_code of every other classroom.  (Refuted: the generator may return the
\* code the classroom already holds, and the save accepts it.)
C19_OldCodeInvalidAfterRegenerate ==
    [][\A u \in Users, pk \in DOMAIN classrooms, code \in generate_join_code :
          (RegenerateJoinCode(u, pk, code) /\ RegenerateJoinCodeOutcome(u, pk, code) = "ok") =>
              /\ \A other \in DOMAIN classrooms' \ {pk} :
                     classrooms'[other].join_code # classrooms'[pk].join_code
              /\ \A student \in Students :
                     LET old == classrooms[pk].join_code
                         joined == JoinFormClean(classrooms', memberships', student, old)
                     IN ~(joined.valid /\ joined.classroom = pk) ]_vars

\* C20: a classroom create by a teacher with an acceptable form never fails on the
\* join code, whatever generate_join_code draws, and neither does a regenerate by
\* the owner: a draw equal to another classroom's code is replaced by a fresh one.
\* (Refuted: neither path draws again; the save of a colliding code is refused and
\* the request ends in an error with nothing stored.)
C20_CodeCollisionIsRetried ==
    /\ \A u \in Teachers, inp \in ClassroomCreateInputs, code \in generate_join_code :
           ClassroomCreateCheck(u, inp) = "ok" => ClassroomCreateOutcome(u, inp, code) = "ok"
    /\ \A pk \in DOMAIN classrooms, code \in generate_join_code :
           RegenerateJoinCodeOutcome(classrooms[pk].teacher, pk, code) = "ok"

\* C21: a leave request is accepted exactly for a student who has a membership in
\* the classroom, and answered with not-found for a student who has none; a leave
\* step deletes the requesting student's membership in that classroom, leaves every
\* other membership as it was and changes no classroom and no submission.
C21_LeaveDeletesOwnMembership ==
    /\ [](\A u \in Students, c \in ClassroomPks :
            /\ (LeaveClassroomOutcome(u, c) = "ok") <=> MembershipCount(memberships, c, u) > 0
            /\ MembershipCount(memberships, c, u) = 0 => LeaveClassroomOutcome(u, c) = "notfound")
    /\ [][memberships' # memberships =>
            \A u \in Users, c \in ClassroomPks :
                LeaveClassroom(u, c) =>
                    /\ u \in Students /\ MembershipCount(memberships, c, u) = 1
                    /\ \A c2 \in ClassroomPks, u2 \in Users :
                           MembershipCount(memberships', c2, u2) =
                               IF c2 = c /\ u2 = u THEN 0 ELSE MembershipCount(memberships, c2, u2)
                    /\ UNCHANGED <<classrooms, subs>> ]_vars

\* C21 witness: s1 created a submission in a classroom (so s1 was a member) and is a
\* member no longer, while s2 still is; a further leave by s1 is answered not-found
C21_Witness ==
    \E c \in DOMAIN classrooms :
        /\ \E pk \in DOMAIN subs : subs[pk].classroom = c /\ subs[pk].created_by = "s1"
        /\ MembershipCount(memberships, c, "s1") = 0
        /\ MembershipCount(memberships, c, "s2") = 1
        /\ LeaveClassroomOutcome("s1", c) = "notfound"

\* C22: a remove request by the teacher who owns the classroom, for a student who is
\* a member of it, completes and deletes that student's membership; a remove request
\* by any other user deletes nothing.  (Refuted: the permission test of the view
\* reads the teacher of the object it fetched, which is the membership, and fails
\* for every requester; the owner's request deletes nothing.)
C22_OwnerRemovesMember ==
    [][\A u \in Users, c \in DOMAIN classrooms, student \in Students :
          (RemoveMember(u, c, student) /\ is_student_member(memberships, c, student)) =>
              IF u = classrooms[c].teacher
              THEN /\ RemoveMemberOutcome(u, c, student) = "ok"
                   /\ memberships' = MembershipDelete(memberships, c, student)
              ELSE memberships' = memberships ]_vars

\* C23: a step that deletes a membership of a classroom that stays (a leave or a
\* remove, not the cascade of a classroom delete) leaves the submission table as it
\* was: no submission is deleted and every submission keeps its collaborators, the
\* former member included, its status, its grade and its creator.
C23_MembershipDeleteKeepsSubmissions ==
    [][memberships' # memberships =>
          \A c \in DOMAIN classrooms', u \in Users :
              MembershipCount(memberships', c, u) < MembershipCount(memberships, c, u) =>
                  /\ LeaveClassroomOutcome(u, c) = "ok" \/ \E t \in Users : RemoveMemberOutcome(t, c, u) = "ok"
                  /\ subs' = subs ]_vars

\* C23 witness: s1 is no longer a member of a classroom and is still a collaborator
\* of a submission in it, which is SUBMITTED and graded
C23_Witness ==
    \E pk \in DOMAIN subs :
        /\ subs[pk].classroom \in DOMAIN classrooms
        /\ "s1" \in subs[pk].collaborators
        /\ MembershipCount(memberships, subs[pk].classroom, "s1") = 0
        /\ subs[pk].status = SUBMITTED
        /\ subs[pk].grade # Null

\* C24: in every reachable state each membership and each submission refers to a
\* classroom that exists; a step that deletes a classroom is a delete by its owner,
\* after it no membership and no submission of that classroom remains, and the
\* memberships and submissions of every other classroom are as they were.
C24_ClassroomDeleteCascades ==
    /\ [](/\ \A p \in DOMAIN memberships : p[1] \in DOMAIN classrooms
          /\ \A k \in DOMAIN subs : subs[k].classroom \in DOMAIN classrooms)
    /\ [][\A pk \in DOMAIN classrooms \ DOMAIN classrooms' :
            /\ ClassroomDelete(classrooms[pk].teacher, pk)
            /\ \A u \in Users \ {classrooms[pk].teacher} : ClassroomDeleteOutcome(u, pk) = "forbidden"
            /\ \A c \in ClassroomPks, u \in Users :
                   MembershipCount(memberships', c, u) =
                       IF c = pk THEN 0 ELSE MembershipCount(memberships, c, u)
            /\ DOMAIN subs' = {k \in DOMAIN subs : subs[k].classroom # pk}
            /\ \A k \in DOMAIN subs' : subs'[k] = subs[k] ]_vars

\* C24 witness: the first classroom was deleted; the second one still has its member
\* and its submission, and nothing refers to the first
C24_Witness ==
    /\ nextClassroomPk > 2 /\ 1 \notin DOMAIN classrooms /\ 2 \in DOMAIN classrooms
    /\ MembershipCount(memberships, 2, "s1") = 1
    /\ \E k \in DOMAIN subs : subs[k].classroom = 2 /\ subs[k].created_by = "s1"
    /\ \A u \in Users : MembershipCount(memberships, 1, u) = 0

\* C25: a grade request is accepted only from the teacher who owns the submission's
\* classroom and only on a SUBMITTED submission; from a student, from a teacher who
\* does not own the classroom, or on a DRAFT submission it is refused; and a step
\* that changes the grade or the teacher_notes of a submission is an accepted grade
\* request of the owner on a submission that was SUBMITTED.
C25_GradeOnlyByOwnerOnSubmitted ==
    /\ [](\A u \in Users, pk \in DOMAIN subs, grade \in GradeInputs, notes \in NotesInputs :
            LET owner == classrooms[subs[pk].classroom].teacher
                out == GradeSubmissionOutcome(u, pk, grade, notes)
            IN /\ out = "ok" => (u = owner /\ is_teacher(u) /\ subs[pk].status = SUBMITTED)
               /\ (u \in Students \/ u # owner \/ subs[pk].status = DRAFT) => out = "forbidden"
               /\ can_grade(u, pk) <=> (u = owner /\ subs[pk].status = SUBMITTED)
               /\ can_grade(u, pk) <=> out # "forbidden")
    /\ [][subs' # subs =>
            \A pk \in DOMAIN subs \cap DOMAIN subs' :
                (subs'[pk].grade # subs[pk].grade \/ subs'[pk].teacher_notes # subs[pk].teacher_notes) =>
                    /\ subs[pk].status = SUBMITTED
                    /\ GradeSubmission(classrooms[subs[pk].classroom].teacher, pk,
                                       subs'[pk].grade, subs'[pk].teacher_notes) ]_vars

\* C25 witness: a SUBMITTED submission that its classroom's owner t1 has graded; t1 may
\* grade it again, the other teacher and the student who wrote it are refused
C25_Witness ==
    \E pk \in DOMAIN subs :
        /\ subs[pk].status = SUBMITTED /\ subs[pk].grade # Null
        /\ classrooms[subs[pk].classroom].teacher = "t1"
        /\ GradeSubmissionOutcome("t1", pk, <<20>>, "great") = "ok"
        /\ GradeSubmissionOutcome("t2", pk, <<20>>, "great") = "forbidden"
        /\ GradeSubmissionOutcome(subs[pk].created_by, pk, <<20>>, "great") = "forbidden"

\* C26: for every user u and stored submission s, can_user_view(s, u) is true exactly
\* when u is the teacher of s's classroom or u is one of s's collaborators, and the
\* submission detail page is served to u exactly when it is true, for DRAFT and for
\* SUBMITTED submissions alike.
C26_ViewIffOwnerOrCollaborator ==
    \A u \in Users, pk \in DOMAIN subs :
        LET s == subs[pk]
            allowed == u = classrooms[s.classroom].teacher \/ u \in s.collaborators
        IN /\ can_user_view(s, u) <=> allowed
           /\ (SubmissionDetailOutcome(u, pk) = "ok") <=> allowed
           /\ ~allowed => SubmissionDetailOutcome(u, pk) = "forbidden"

\* C26 witness: a DRAFT submission in t1's classroom with s1 as its only collaborator:
\* t1 and s1 are served the detail page, t2 and s2 are refused
C26_Witness ==
    \E pk \in DOMAIN subs :
        /\ subs[pk].status = DRAFT /\ subs[pk].collaborators = {"s1"}
        /\ classrooms[subs[pk].classroom].teacher = "t1"
        /\ SubmissionDetailOutcome("t1", pk) = "ok"
        /\ SubmissionDetailOutcome("s1", pk) = "ok"
        /\ SubmissionDetailOutcome("t2", pk) = "forbidden"
        /\ SubmissionDetailOutcome("s2", pk) = "forbidden"

\* C27: classroom update, classroom delete and regenerate-join-code are refused to
\* every user who is not the classroom's teacher, student or teacher; and a step
\* that changes or removes a classroom is an update, a delete or a regenerate
\* requested by its teacher (which leaves memberships and submissions alone, except
\* for the cascade of the delete).
C27_OnlyOwnerManagesClassroom ==
    /\ [](\A pk \in DOMAIN classrooms : \A u \in Users \ {classrooms[pk].teacher} :
            /\ \A inp \in ClassroomInputs : ClassroomUpdateOutcome(u, pk, inp) = "forbidden"
            /\ ClassroomDeleteOutcome(u, pk) = "forbidden"
            /\ \A code \in generate_join_code : RegenerateJoinCodeOutcome(u, pk, code) = "forbidden")
    /\ [][classrooms' # classrooms =>
            \A pk \in DOMAIN classrooms :
                (pk \notin DOMAIN classrooms' \/ classrooms'[pk] # classrooms[pk]) =>
                    LET owner == classrooms[pk].teacher
                    IN \/ ClassroomDelete(owner, pk)
                       \/ \E inp \in ClassroomInputs : ClassroomUpdate(owner, pk, inp)
                       \/ \E code \in generate_join_code : RegenerateJoinCode(owner, pk, code) ]_vars

\* C27 witness: t1 has edited the classroom t1 owns, which has a member; t2, who
\* owns the other classroom, and the member s1 are refused all three operations
C27_Witness ==
    \E pk, other \in DOMAIN classrooms :
        /\ classrooms[pk].teacher = "t1" /\ classrooms[other].teacher = "t2"
        /\ classrooms[pk].title = "Web 2"
        /\ MembershipCount(memberships, pk, "s1") = 1
        /\ \A u \in {"t2", "s1"} :
               /\ ClassroomUpdateOutcome(u, pk, [title |-> "Web", description |-> "final project",
                                                 requirements_file |-> None]) = "forbidden"
               /\ ClassroomDeleteOutcome(u, pk) = "forbidden"
               /\ RegenerateJoinCodeOutcome(u, pk, "Q7Q7Q7Q7") = "forbidden"

\* C28: classroom detail and the classroom member list are served to user u for a
\* stored classroom c exactly when u is c's teacher or u has a membership in c now;
\* everyone else, a student who has left c included, is refused.
C28_ClassroomViewIffOwnerOrMember ==
    \A u \in Users, c \in DOMAIN classrooms :
        LET allowed == u = classrooms[c].teacher \/ MembershipCount(memberships, c, u) > 0
        IN /\ (ClassroomDetailOutcome(u, c) = "ok") <=> allowed
           /\ (ClassroomMemberListOutcome(u, c) = "ok") <=> allowed
           /\ ~allowed => /\ ClassroomDetailOutcome(u, c) = "forbidden"
                          /\ ClassroomMemberListOutcome(u, c) = "forbidden"

\* C28 witness: s1 wrote a submission in t1's classroom and has left it since: s1 and
\* t2 are refused the detail page and the member list, the member s2 and t1 get them
C28_Witness ==
    \E c \in DOMAIN classrooms :
        /\ classrooms[c].teacher = "t1"
        /\ \E pk \in DOMAIN subs : subs[pk].classroom = c /\ "s1" \in subs[pk].collaborators
        /\ MembershipCount(memberships, c, "s1") = 0
        /\ MembershipCount(memberships, c, "s2") = 1
        /\ \A u \in {"s1", "t2"} : /\ ClassroomDetailOutcome(u, c) = "forbidden"
                                  /\ ClassroomMemberListOutcome(u, c) = "forbidden"
        /\ \A u \in {"s2", "t1"} : /\ ClassroomDetailOutcome(u, c) = "ok"
                                  /\ ClassroomMemberListOutcome(u, c) = "ok"

\* C29: no listing served to a teacher contains a DRAFT submission: the role-scoped
\* submission list, the teacher submission list, the submissions of the classroom
\* detail page and the per-classroom submission list hold only SUBMITTED submissions,
\* whatever filter is supplied, none included.  (Refuted: the per-classroom list
\* takes every submission of the classroom and filters by status only on request.)
C29_TeacherListsHideDrafts ==
    \A u \in Teachers, f \in SubmissionFilterInputs :
        /\ \A k \in SubmissionListQueryset(u, f) : subs[k].status = SUBMITTED
        /\ \A k \in TeacherSubmissionListQueryset(u, f) : subs[k].status = SUBMITTED
        /\ \A c \in DOMAIN classrooms :
               /\ \A k \in ClassroomDetailSubmissions(u, c) : subs[k].status = SUBMITTED
               /\ ClassroomSubmissionListOutcome(u, c) = "ok" =>
                      \A k \in ClassroomSubmissionListQueryset(u, c, f) : subs[k].status = SUBMITTED

\* C30: every submission in the role-scoped submission list of user u, under any
\* filter, is one u may view; for a student the unfiltered list is exactly the
\* submissions with u among the collaborators, for a teacher the list holds only
\* submissions of classrooms u teaches; the unfiltered classroom list is exactly the
\* classrooms u teaches (teacher) or is a member of (student), and a search narrows it.
C30_ListsMatchViewPredicate ==
    /\ \A u \in Users, f \in SubmissionFilterInputs :
           LET qs == SubmissionListQueryset(u, f)
           IN /\ \A k \in qs : can_user_view(subs[k], u)
              /\ u \in Students => qs \subseteq {k \in DOMAIN subs : u \in subs[k].collaborators}
              /\ u \in Teachers => \A k \in qs : classrooms[subs[k].classroom].teacher = u
    /\ \A u \in Students :
           SubmissionListQueryset(u, NoFilter) = {k \in DOMAIN subs : u \in subs[k].collaborators}
    /\ \A u \in Users :
           LET mine == IF u \in Teachers
                       THEN {c \in DOMAIN classrooms : classrooms[c].teacher = u}
                       ELSE {c \in DOMAIN classrooms : MembershipCount(memberships, c, u) > 0}
           IN /\ ClassroomListQueryset(u, "") = mine
              /\ \A search \in ClassroomSearches : ClassroomListQueryset(u, search) \subseteq mine

\* C30 witness: s1 and s2 each wrote a submission in t1's classroom and one of the two
\* is SUBMITTED: each student's list is their own submission, t1's list is the
\* SUBMITTED one, t2's list is empty, and the classroom is in the lists of s1 and t1
C30_Witness ==
    \E a, b \in DOMAIN subs, c \in DOMAIN classrooms :
        /\ subs[a].classroom = c /\ subs[b].classroom = c /\ classrooms[c].teacher = "t1"
        /\ subs[a].collaborators = {"s1"} /\ subs[b].collaborators = {"s2"}
        /\ subs[a].status = SUBMITTED /\ subs[b].status = DRAFT
        /\ SubmissionListQueryset("s1", NoFilter) = {a}
        /\ SubmissionListQueryset("s2", NoFilter) = {b}
        /\ SubmissionListQueryset("t1", NoFilter) = {a}
        /\ SubmissionListQueryset("t2", NoFilter) = {}
        /\ ClassroomListQueryset("s1", "") = {c} /\ ClassroomListQueryset("t1", "") = {c}
        /\ ClassroomListQueryset("t2", "") = {}

C35_GradedStaysGraded ==
    [][\A pk \in DOMAIN subs \cap DOMAIN subs' :
          subs[pk].grade # Null =>
              /\ subs'[pk].grade # Null
              /\ subs'[pk].grade[1] \in MinGrade..MaxGrade ]_vars

\* C38: every stored submission has at least one collaborator.  A step that stores a
\* new submission stores its creator among the collaborators, and an update that
\* selects no collaborator is refused for every user and every input, so the stored
\* set stays as it was.
C38_CollaboratorsNeverEmpty ==
    /\ [](\A pk \in DOMAIN subs :
              /\ subs[pk].collaborators # {}
              /\ \A u \in Users, inp \in SubmissionInputs :
                     SubmissionUpdateOutcome(u, pk, inp, {}) # "ok")
    /\ [][nextSubPk' # nextSubPk =>
              /\ nextSubPk \in DOMAIN subs'
              /\ subs'[nextSubPk].created_by \in subs'[nextSubPk].collaborators ]_vars

\* C38 witness: a DRAFT submission created by s1 alone, then updated to s2 as its only
\* collaborator; s2's update that selects nobody is refused as invalid, while the same
\* update selecting s1 would be accepted
C38_Witness ==
    \E pk \in DOMAIN subs, inp \in SubmissionInputs :
        /\ subs[pk].status = DRAFT
        /\ subs[pk].created_by = "s1"
        /\ subs[pk].collaborators = {"s2"}
        /\ SubmissionUpdateOutcome("s2", pk, inp, {}) = "invalid"
        /\ SubmissionUpdateOutcome("s2", pk, inp, {"s1"}) = "ok"

(***************************************************************************)
(* The interleaved specification.  A worker handles a join or a create     *)
(* request in two steps: the checks and the form validation read the store *)
(* (Begin), the form's save writes it later (Commit); requests of other    *)
(* workers run in between.  No transaction spans the two steps.            *)
(* NextConc interleaves them with the handlers that insert or delete rows  *)
(* of the three tables.                                                    *)
(***************************************************************************)
\* JoinClassroomView up to form.is_valid(): the form keeps the classroom it found
JoinBegin(w, u, typed) ==
    /\ reqs[w] = Idle
    /\ JoinCheckOutcome(u, typed) = "ok"
    /\ reqs' = [reqs EXCEPT ![w] =
           [op |-> "join", user |-> u,
            classroom |-> JoinFormClean(classrooms, memberships, u, typed).classroom]]
    /\ Done
    /\ UNCHANGED <<classrooms, nextClassroomPk, memberships, subs, nextSubPk>>

\* JoinClassroomView.form_valid -> JoinClassroomForm.save
JoinCommit(w) ==
    /\ reqs[w].op = "join"
    /\ JoinFormSave(reqs[w].user, reqs[w].classroom)
    /\ reqs' = [reqs EXCEPT ![w] = Idle]
    /\ Done
    /\ UNCHANGED <<classrooms, nextClassroomPk, subs, nextSubPk>>

\* SubmissionCreateView up to form.is_valid()
CreateBegin(w, u, c, inp, sel) ==
    /\ reqs[w] = Idle
    /\ CreateCheckOutcome(u, c, inp, sel) = "ok"
    /\ reqs' = [reqs EXCEPT ![w] =
           [op |-> "create", user |-> u, classroom |-> c, inp |-> inp, sel |-> sel]]
    /\ Done
    /\ UNCHANGED <<classrooms, nextClassroomPk, memberships, subs, nextSubPk>>

\* SubmissionCreateView.form_valid -> ProjectSubmissionCreateForm.save
CreateCommit(w) ==
    /\ reqs[w].op = "create"
    /\ CreateFormSave(reqs[w].user, reqs[w].classroom, reqs[w].inp, reqs[w].sel)
    /\ reqs' = [reqs EXCEPT ![w] = Idle]
    /\ Done
    /\ UNCHANGED <<classrooms, nextClassroomPk, memberships>>

NextConc ==
    \/ Within /\ nextClassroomPk <= MaxClassrooms /\ \E u \in Users, inp \in ClassroomCreateInputs, code \in generate_join_code :
            ClassroomCreate(u, inp, code)
    \/ Within /\ \E u \in Users, pk \in ClassroomPks :
            ClassroomDelete(u, pk)
    \/ Within /\ \E u \in Users, typed \in TypedCodes :
            JoinClassroom(u, typed)
    \/ Within /\ \E u \in Users, c \in ClassroomPks :
            LeaveClassroom(u, c)
    \/ Within /\ \E u \in Users, pk \in SubmissionPks :
            SubmissionDelete(u, pk)
    \/ Within /\ \E w \in Workers, u \in Users, typed \in TypedCodes :
            JoinBegin(w, u, typed)
    \/ Within /\ \E w \in Workers :
            JoinCommit(w)
    \/ Within /\ nextSubPk <= MaxSubmissions /\ \E w \in Workers, u \in Users, c \in ClassroomPks, inp \in SubmissionInputs, sel \in CollaboratorInputs :
            CreateBegin(w, u, c, inp, sel)
    \/ Within /\ \E w \in Workers :
            CreateCommit(w)

SpecConc == Init /\ [][NextConc]_vars

(***************************************************************************)
(* Properties of the interleaved specification.                            *)
(***************************************************************************)
\* C2: in every reachable state there is at most one ProjectSubmission per (classroom,
\* created_by), also when two create requests of one student for one classroom have
\* both passed the checks before either saves: the store refuses the second insert.
C2_OneSubmissionPerStudentPerClassroom ==
    \A a, b \in DOMAIN subs :
        (subs[a].classroom = subs[b].classroom /\ subs[a].created_by = subs[b].created_by) => a = b

\* C2 witness: two create requests of one student for one classroom passed the checks,
\* one has saved its row and the other is still to save
C2_Witness ==
    \E w \in Workers, pk \in DOMAIN subs :
        /\ reqs[w].op = "create"
        /\ subs[pk].classroom = reqs[w].classroom
        /\ subs[pk].created_by = reqs[w].user
        /\ CreateSaveOutcome(reqs[w].user, reqs[w].classroom) = "error"

\* C3: in every reachable state there is at most one ClassroomMembership per
\* (classroom, student), also when two join requests of one student with one code have
\* both passed the membership check before either saves.
C3_OneMembershipPerStudentPerClassroom ==
    \A c \in ClassroomPks, u \in Users : MembershipCount(memberships, c, u) <= 1

\* C3 witness: two join requests of one student for one classroom passed the checks,
\* one has saved its membership and the other is still to save
C3_Witness ==
    \E w \in Workers :
        /\ reqs[w].op = "join"
        /\ MembershipCount(memberships, reqs[w].classroom, reqs[w].user) = 1
        /\ JoinSaveOutcome(reqs[w].user, reqs[w].classroom) = "error"

(***************************************************************************)
(* The stale-row specification.  An update, a submit or a delete of a      *)
(* submission, and an update of a classroom, load the row and check it     *)
(* (Begin) and write later (Commit); other requests run in between.  The   *)
(* instance a request loaded stays as it was loaded: a ModelForm's save    *)
(* writes every column of it, save(update_fields=...) writes the named     *)
(* columns, delete() deletes by pk.  steps counts requests: a Commit ends  *)
(* a request that was already counted.                                     *)
(***************************************************************************)
\* construct_instance: the form's fields are set on the loaded instance, the other
\* attributes stay as loaded
UpdateFormRow(row, inp, sel) ==
    [row EXCEPT !.title = inp.title, !.description = inp.description,
                !.repository_url = inp.repository_url, !.deployed_url = inp.deployed_url,
                !.collaborators = sel]

\* Model.save() of a loaded submission: an UPDATE of all columns where the pk is
\* stored, and an INSERT where it is not (refused by the foreign key or by the
\* unique constraint: IntegrityError)
SubmissionSaveOutcome(pk, row) ==
    IF pk \in DOMAIN subs THEN "ok"
    ELSE IF row.classroom \in DOMAIN classrooms /\ SubmissionUnique(subs, row.classroom, row.created_by)
         THEN "ok"
         ELSE "error"

SubmissionSave(pk, row) ==
    IF SubmissionSaveOutcome(pk, row) = "ok"
    THEN subs' = [k \in DOMAIN subs \cup {pk} |-> IF k = pk THEN row ELSE subs[k]]
    ELSE UNCHANGED subs

\* SubmissionUpdateView up to form.is_valid(): the view holds the loaded instance
UpdateBegin(w, u, pk, inp, sel) ==
    /\ reqs[w] = Idle
    /\ SubmissionUpdateOutcome(u, pk, inp, sel) = "ok"
    /\ reqs' = [reqs EXCEPT ![w] =
           [op |-> "update", user |-> u, pk |-> pk, row |-> subs[pk], inp |-> inp, sel |-> sel]]
    /\ Done
    /\ UNCHANGED <<classrooms, nextClassroomPk, memberships, subs, nextSubPk>>

\* SubmissionUpdateView.form_valid -> ModelForm.save
UpdateCommit(w) ==
    /\ reqs[w].op = "update"
    /\ SubmissionSave(reqs[w].pk, UpdateFormRow(reqs[w].row, reqs[w].inp, reqs[w].sel))
    /\ reqs' = [reqs EXCEPT ![w] = Idle]
    /\ UNCHANGED <<classrooms, nextClassroomPk, memberships, nextSubPk, steps>>

\* SubmissionSubmitView up to form.is_valid(): dispatch loaded self.submission
SubmitBegin(w, u, pk, confirm) ==
    /\ reqs[w] = Idle
    /\ \E now \in Times : SubmissionSubmitOutcome(u, pk, confirm, now) = "ok"
    /\ reqs' = [reqs EXCEPT ![w] = [op |-> "submit", user |-> u, pk |-> pk, row |-> subs[pk]]]
    /\ Done
    /\ UNCHANGED <<classrooms, nextClassroomPk, memberships, subs, nextSubPk>>

\* what SubmissionSubmitView.form_valid reports: the flag submit() returns for the
\* loaded instance
SubmitReportsSuccess(w, now) == submit(reqs[w].row, now).ok

\* SubmissionSubmitView.form_valid -> self.submission.submit(): the test reads the
\* loaded instance, save(update_fields=['status', 'submitted_at', ...]) writes the two
\* columns of the stored row (no stored row: DatabaseError, nothing written)
SubmitCommit(w, now) ==
    /\ reqs[w].op = "submit"
    /\ IF reqs[w].pk \in DOMAIN subs /\ SubmitReportsSuccess(w, now)
       THEN subs' = [subs EXCEPT ![reqs[w].pk] =
                [@ EXCEPT !.status = submit(reqs[w].row, now).row.status,
                          !.submitted_at = submit(reqs[w].row, now).row.submitted_at]]
       ELSE UNCHANGED subs
    /\ reqs' = [reqs EXCEPT ![w] = Idle]
    /\ UNCHANGED <<classrooms, nextClassroomPk, memberships, nextSubPk, steps>>

\* SubmissionDeleteView up to the delete: test_func passed on the loaded instance
DeleteBegin(w, u, pk) ==
    /\ reqs[w] = Idle
    /\ SubmissionDeleteOutcome(u, pk) = "ok"
    /\ reqs' = [reqs EXCEPT ![w] = [op |-> "delete", user |-> u, pk |-> pk]]
    /\ Done
    /\ UNCHANGED <<classrooms, nextClassroomPk, memberships, subs, nextSubPk>>

\* DeleteView.form_valid -> self.object.delete(): the row with the pk, whatever it
\* holds by now
DeleteCommit(w) ==
    /\ reqs[w].op = "delete"
    /\ subs' = [k \in DOMAIN subs \ {reqs[w].pk} |-> subs[k]]
    /\ reqs' = [reqs EXCEPT ![w] = Idle]
    /\ UNCHANGED <<classrooms, nextClassroomPk, memberships, nextSubPk, steps>>

\* ClassroomUpdateView up to form.is_valid()
ClassroomUpdateBegin(w, u, pk, inp) ==
    /\ reqs[w] = Idle
    /\ ClassroomUpdateOutcome(u, pk, inp) = "ok"
    /\ reqs' = [reqs EXCEPT ![w] =
           [op |-> "classroom_update", user |-> u, pk |-> pk, row |-> classrooms[pk], inp |-> inp]]
    /\ Done
    /\ UNCHANGED <<classrooms, nextClassroomPk, memberships, subs, nextSubPk>>

\* ClassroomUpdateView.form_valid -> ModelForm.save: all columns of the loaded
\* classroom, join_code and teacher among them, with the form's three fields set; the
\* save is refused when another classroom holds the loaded code by now
ClassroomUpdateCommit(w) ==
    /\ reqs[w].op = "classroom_update"
    /\ LET row == [reqs[w].row EXCEPT !.title = reqs[w].inp.title,
                                     !.description = reqs[w].inp.description,
                                     !.requirements_file = reqs[w].inp.requirements_file]
       IN IF JoinCodeSaveOutcome(row.join_code, reqs[w].pk) = "ok"
          THEN classrooms' = [k \in DOMAIN classrooms \cup {reqs[w].pk} |->
                                 IF k = reqs[w].pk THEN row ELSE classrooms[k]]
          ELSE UNCHANGED classrooms
    /\ reqs' = [reqs EXCEPT ![w] = Idle]
    /\ UNCHANGED <<nextClassroomPk, memberships, subs, nextSubPk, steps>>

NextStale ==
    \/ Within /\ nextClassroomPk <= MaxClassrooms /\ \E u \in Users, inp \in ClassroomCreateInputs, code \in generate_join_code :
            ClassroomCreate(u, inp, code)
    \/ Within /\ \E u \in Users, pk \in ClassroomPks, code \in generate_join_code :
            RegenerateJoinCode(u, pk, code)
    \/ Within /\ \E u \in Users, typed \in TypedCodes :
            JoinClassroom(u, typed)
    \/ Within /\ nextSubPk <= MaxSubmissions /\ \E u \in Users, c \in ClassroomPks, inp \in SubmissionInputs, sel \in CollaboratorInputs :
            SubmissionCreate(u, c, inp, sel)
    \/ Within /\ \E u \in Users, pk \in SubmissionPks, grade \in GradeInputs, notes \in NotesInputs :
            GradeSubmission(u, pk, grade, notes)
    \/ Within /\ \E w \in Workers, u \in Users, pk \in SubmissionPks, inp \in SubmissionInputs, sel \in CollaboratorInputs :
            UpdateBegin(w, u, pk, inp, sel)
    \/ \E w \in Workers :
            UpdateCommit(w)
    \/ Within /\ \E w \in Workers, u \in Users, pk \in SubmissionPks, confirm \in BOOLEAN :
            SubmitBegin(w, u, pk, confirm)
    \/ \E w \in Workers, now \in Times :
            SubmitCommit(w, now)
    \/ Within /\ \E w \in Workers, u \in Users, pk \in SubmissionPks :
            DeleteBegin(w, u, pk)
    \/ \E w \in Workers :
            DeleteCommit(w)
    \/ Within /\ \E w \in Workers, u \in Users, pk \in ClassroomPks, inp \in ClassroomInputs :
            ClassroomUpdateBegin(w, u, pk, inp)
    \/ \E w \in Workers :
            ClassroomUpdateCommit(w)

SpecStale == Init /\ [][NextStale]_vars

(***************************************************************************)
(* Properties of the stale-row specification.                              *)
(***************************************************************************)
\* C32: a submission whose stored status is SUBMITTED is stored as SUBMITTED, with its
\* submitted_at, after every step that keeps it, also when an update that loaded it
\* as a DRAFT saves after a submit has committed.  (Refuted: the update form's save
\* writes every column of the instance it loaded, status and submitted_at included.)
C32_StaleUpdateKeepsSubmitted ==
    [][\A pk \in DOMAIN subs \cap DOMAIN subs' :
          subs[pk].status = SUBMITTED =>
              /\ subs'[pk].status = SUBMITTED
              /\ subs'[pk].submitted_at # Null ]_vars

\* C33: for each submission the transition to SUBMITTED happens once: a submit
\* request that reports success stores SUBMITTED on a submission that was stored as
\* DRAFT, and no step changes a submitted_at that is set, also when two submit
\* requests both loaded the submission as a DRAFT.  (Refuted: submit() tests the
\* loaded instance, not the stored row; the second request stamps and reports
\* success again.)
C33_SubmitSucceedsOnce ==
    [][/\ \A w \in Workers, now \in Times :
             (SubmitCommit(w, now) /\ SubmitReportsSuccess(w, now) /\ reqs[w].pk \in DOMAIN subs) =>
                 subs[reqs[w].pk].status = DRAFT
       /\ \A pk \in DOMAIN subs \cap DOMAIN subs' :
             (subs[pk].submitted_at # Null /\ subs'[pk].status = SUBMITTED) =>
                 subs'[pk].submitted_at = subs[pk].submitted_at ]_vars

\* C34: a step that changes the grade or the teacher_notes of a graded submission is
\* a grade request of the teacher of its classroom: no request of a student changes
\* them, also when an update that loaded the submission before it was submitted and
\* graded saves after the grading.  (Refuted: the update form's save writes the
\* grade and the notes of the instance it loaded, which are empty.)
C34_StudentsNeverChangeGrade ==
    [][\A pk \in DOMAIN subs \cap DOMAIN subs' :
          (/\ subs[pk].grade # Null
           /\ subs'[pk].grade # subs[pk].grade \/ subs'[pk].teacher_notes # subs[pk].teacher_notes) =>
              \E grade \in GradeInputs, notes \in NotesInputs :
                  GradeSubmission(classrooms[subs[pk].classroom].teacher, pk, grade, notes) ]_vars

\* C36: a submission stored as SUBMITTED leaves the table only together with its
\* classroom: the delete operation never removes it, also when a delete request
\* passed its DRAFT check before a submit committed and deletes afterwards.
\* (Refuted: the delete removes the row by pk without looking at it again.)
C36_SubmittedIsNeverDeleted ==
    [][\A pk \in DOMAIN subs \ DOMAIN subs' :
          subs[pk].status = SUBMITTED => subs[pk].classroom \notin DOMAIN classrooms' ]_vars

\* C37: no step changes the teacher of a classroom, and a step that changes its
\* join_code is a regenerate requested by its teacher: a classroom update changes
\* title, description and requirements file only, also when it loaded the classroom
\* before a regenerate committed and saves after it.  (Refuted: the update form's save
\* writes the join_code of the instance it loaded and puts the replaced code back.)
C37_ClassroomUpdateKeepsCode ==
    [][\A pk \in DOMAIN classrooms \cap DOMAIN classrooms' :
          /\ classrooms'[pk].teacher = classrooms[pk].teacher
          /\ classrooms'[pk].join_code # classrooms[pk].join_code =>
                 \E code \in generate_join_code : RegenerateJoinCode(classrooms[pk].teacher, pk, code) ]_vars

====
